---- MODULE Spec2Model ----
(***************************************************************************)
(* Resource-governance core of rag-api: the sliding-window RateLimiter,    *)
(* the AsyncSemaphoreWithRateLimit gate and the wrappers that use it, and  *)
(* the MultiTenantRAGManager instance pool.                                *)
(*                                                                         *)
(* Time is the value time.time() returns, in whole seconds.  A coroutine   *)
(* step is what runs between two suspension points of the event loop.      *)
(***************************************************************************)
EXTENDS Integers, Sequences, FiniteSets, TLC

\* ------------------------------------------------------------------ bounds
NumCallers == 3
TickStep == 30
MaxTime == 120
RpmLimit == 1
TpmLimit == 4
MaxConcurrent == 2
SmallEst == 1
NumPoolCallers == 2
MaxInstances == 2
MaxHandles == 4
TenantIdMinLength == 1
TenantIdMaxLength == 3
MaxTasks == 2
NumBatches == 1
MaxBatchFiles == 2
\* requests_per_minute of the MinerU client's RateLimiter
MineruRpm == 1

NumStoreIds == 1
ExpiryStep == 43200

\* ------------------------------------------------------- program constants
\* the window of the MinerU client's RateLimiter, in seconds
MineruWindow == 60

Window == 60
ModelCallTimeout == 90

Callers == 1..NumCallers

\* estimated_tokens values passed to RateLimiter.acquire: none, below the
\* limit, above the limit
Tokens == {0, TpmLimit - 1, TpmLimit + 1}

\* "sync": llm_model_func / embedding_func_with_rate_limit /
\*         rerank_func_with_rate_limit (one code shape)
\* "vision": seed_vision_model_func
\* "gate": async with AsyncSemaphoreWithRateLimit
\* "awt": acquire_with_tokens ... release
WrapperKinds == {"sync", "vision"}
GateKinds == {"sync", "vision", "gate", "awt"}

Errors == {"E1", "E2"}

PoolCallers == 1..NumPoolCallers

\* tenant ids are strings, modelled as sequences of characters
AlnumChars == {"a", "b", "c", "1"}

TenantIds ==
    { <<>>, <<"a">>, <<"b">>, <<"c">>, <<"a", " ">>, <<"a", "a", "a", "a">> }

\* no statistics in the result of a call other than get_stats
NoStats == [total_instances |-> 0, max_instances |-> 0, tenants |-> <<>>]

\* no cache hit recorded for the tenant
NoHit == [h |-> 0, replaced |-> FALSE]

VARIABLES
    now,            \* time.time()
    request_times,  \* RateLimiter.request_times (deque of grant times)
    token_usage,    \* RateLimiter.token_usage (deque of <<time, tokens>>)
    sem_value,      \* asyncio.Semaphore._value of the gate
    pc,             \* position of each caller
    kind,           \* which entry point the caller uses
    est,            \* estimated_tokens of the caller's acquire
    wakeAt,         \* end of the caller's asyncio.sleep(wait_time)
    grantTime,      \* history: when the caller's acquire was granted (-1: not yet)
    ev,             \* history: the caller's events in order
    raised,         \* history: the error the upstream call raised ("" if none)
    outcome,        \* what the caller got back ("" while running)
    timedOut,       \* sync wrapper: future.result(timeout) has expired
    startAt         \* sync wrapper: when the coroutine was submitted

    \* ---- MultiTenantRAGManager
VARIABLES
    instances,      \* _instances: the dict's entries in insertion order
    nextHandle,     \* number of LightRAG instances constructed so far
    ppc,            \* position of each get_instance caller
    ptid,           \* tenant_id argument of the caller's get_instance
    result,         \* what the last completed pool call returned
    residentSince,  \* history: handle inserted when the tenant became resident
    lastHit,        \* history: handle the last cache hit returned per tenant
    scen,           \* history: progress of the call sequence a, b, c, a
    evicted         \* history: the entry the caller's get_instance deleted


    \* ---- task store (api/task_store.py) and the routes that use it
VARIABLES
    tasks,          \* _MemoryStore.tasks: tenant -> task_id -> TaskInfo
    batches,        \* _MemoryStore.batches: tenant -> batch_id -> record
    nextTask,       \* number of task ids generated so far
    nextBatch,      \* number of batch ids generated so far
    wpc,            \* position of the background worker of each task
    wargs,          \* arguments the background worker was scheduled with
    sync,           \* the GET /task call suspended in sync_task_with_lightrag
    jresp           \* the last response of a route


    \* ---- gate registry (get_rate_limiter) and its configuration
VARIABLES
    limiters,       \* _limiters: service -> the gate created for it
    max_async,      \* config.<service>.max_async (None unless the operator set it)
    calc,           \* the last call of calculate_optimal_concurrent
    gcall           \* the last call of get_rate_limiter and what it logged

    \* ---- the store selected at import (api/task_store.py: _store)
VARIABLES
    backend,        \* "unset" until api/task_store.py is imported, then
                    \* "memory": _MemoryStore; "redis": _RedisStore connected;
                    \* "fallback": _RedisStore with self.fallback set
    redisUp,        \* the Redis server answers
    rkeys,          \* Redis: task:{tenant}:{task_id} -> value and TTL
    rindex,         \* Redis: the set tenant:tasks:{tenant}
    rbatches,       \* Redis: batch:{tenant}:{batch_id} -> value
    rbindex,        \* Redis: the set tenant:batches:{tenant}
    sjob,           \* the background worker in progress and how it ended
    sresp           \* what the last store call returned

    \* ---- the MinerU client's RateLimiter (mineru_client.py)
VARIABLES
    mineru_times,   \* RateLimiter.request_times (list of request times)
    mineru_lock,    \* the caller that holds RateLimiter._lock (0: unlocked)
    mpc,            \* position of each caller of acquire
    mwake           \* end of the caller's asyncio.sleep(wait_time)

gvars == <<now, request_times, token_usage, sem_value, pc, kind, est, wakeAt,
           grantTime, ev, raised, outcome, timedOut, startAt>>
pvars == <<instances, nextHandle, ppc, ptid, result, residentSince, lastHit,
           scen, evicted>>
jvars == <<tasks, batches, nextTask, nextBatch, wpc, wargs, sync, jresp>>
cvars == <<limiters, max_async, calc, gcall>>
svars == <<backend, redisUp, rkeys, rindex, rbatches, rbindex, sjob, sresp>>
mvars == <<mineru_times, mineru_lock, mpc, mwake>>
vars == <<gvars, pvars, jvars, cvars, svars, mvars>>

\* what the limiter and gate steps leave alone, what the pool steps leave alone
nonGate == <<pvars, jvars, cvars, svars, mvars>>
nonPool == <<gvars, jvars, cvars, svars, mvars>>

\* ------------------------------------------------- task store: value sets
JobTenants == {"ta", "tb"}
TaskIds == 1..MaxTasks
BatchIds == 1..NumBatches

\* doc_id values chosen by clients; the first one equals a task id
DocIds == {1, 100}

\* absent dict entries (dict.get returns None)
NoTask == [kind |-> "none", doc |-> 0, status |-> "none"]
NoBatch == [task_ids |-> <<>>, total |-> -1, created_at |-> ""]
NoSync == [tenant |-> "", task_id |-> 0]
NoArgs == [tenant |-> "", doc |-> 0, kind |-> "none"]
NoCounts == [total |-> 0, completed |-> 0, failed |-> 0, pending |-> 0,
             processing |-> 0]
NoResp == [op |-> "none", tenant |-> "", doc |-> 0, code |-> 0,
           counts |-> NoCounts]

\* ------------------------------------------------ gate registry: value sets
\* Optional[int]: None is the empty sequence, a number n is <<n>>
None == <<>>

\* one configured service and one that get_rate_limiter does not know
Services == {"llm", "other"}

\* arguments of calculate_optimal_concurrent
RpmValues == {1, 12, 60, 800}
TpmValues == {60, 300, 6000, 6060}
AvgTokenValues == {1, 5, 100}
DurationValues == {1, 3, 11}

\* arguments of get_rate_limiter and values of <SERVICE>_MAX_ASYNC
MaxConcurrentArgs == {None, <<0>>, <<4>>}
RpmArgs == {None, <<0>>, <<1>>}
TpmArgs == {None, <<400000>>}
MaxAsyncValues == {None, <<1>>, <<8>>}

NoGate == [max_concurrent |-> 0, requests_per_minute |-> 0,
           tokens_per_minute |-> 0]
NoCalc == [rpm |-> 0, tpm |-> 0, avg |-> 0, dur |-> 0, ret |-> 0]
NoGCall == [service |-> "", max_concurrent |-> None, created |-> FALSE,
            warned |-> FALSE]

InitConfig ==
    /\ limiters = [sv \in Services |-> NoGate]
    /\ max_async = [sv \in Services |-> None]
    /\ calc = NoCalc
    /\ gcall = NoGCall

\* ------------------------------------------------- selected store: value sets
\* _RedisStore.TTL_COMPLETED, TTL_FAILED, TTL_PENDING (seconds)
TTL_COMPLETED == 24 * 60 * 60
TTL_FAILED == 24 * 60 * 60
TTL_PENDING == 6 * 60 * 60

\* values of TASK_STORE_STORAGE
StorageTypes == {"memory", "redis"}

\* the task ids the store's callers use
StoreIds == 1..NumStoreIds

\* the status values the callers of update_task pass
UpdateStatuses == {"processing", "deleting", "completed", "failed"}

\* the task a route creates for the tenant's upload: status pending; the
\* two tenants upload different documents
NewTask(tn) ==
    [kind |-> "insert", doc |-> IF tn = "ta" THEN 1 ELSE 100,
     status |-> "pending"]

\* task_ids of the batches a client creates
BatchTaskIds == {<<1>>}

\* datetime.now().isoformat() at the creation of a batch
CreatedAts == {"t1", "t2"}

\* a Redis key that does not exist
NoKey == [info |-> NoTask, ttl |-> None]

\* what a store method returns: a task (get_task), a flag (delete_*), the
\* tenant's tasks as a set of <<task_id, task>> pairs (get_tenant_tasks), a
\* batch record (get_batch); the other methods return None
NoRet == [info |-> NoTask, ok |-> FALSE, tasks |-> {}, batch |-> NoBatch]

NoSJob == [tenant |-> "", id |-> 0, pc |-> "none"]
NoSResp == [op |-> "none", raised |-> FALSE, ret |-> NoRet]

InitStore ==
    /\ backend = "unset"
    /\ redisUp = FALSE
    /\ rkeys = [tn \in JobTenants |-> [k \in StoreIds |-> NoKey]]
    /\ rindex = [tn \in JobTenants |-> {}]
    /\ rbatches = [tn \in JobTenants |-> [b \in BatchIds |-> NoBatch]]
    /\ rbindex = [tn \in JobTenants |-> {}]
    /\ sjob = NoSJob
    /\ sresp = NoSResp

InitMineru ==
    /\ mineru_times = <<>>
    /\ mineru_lock = 0
    /\ mpc = [c \in Callers |-> "idle"]
    /\ mwake = [c \in Callers |-> 0]

InitJobs ==
    /\ tasks = [tn \in JobTenants |-> [k \in TaskIds |-> NoTask]]
    /\ batches = [tn \in JobTenants |-> [b \in BatchIds |-> NoBatch]]
    /\ nextTask = 0
    /\ nextBatch = 0
    /\ wpc = [k \in TaskIds |-> "none"]
    /\ wargs = [k \in TaskIds |-> NoArgs]
    /\ sync = NoSync
    /\ jresp = NoResp

\* ----------------------------------------------------------------- helpers
Max(a, b) == IF a >= b THEN a ELSE b

RECURSIVE SumTokens(_)
SumTokens(usage) ==
    IF usage = <<>> THEN 0 ELSE usage[1][2] + SumTokens(Tail(usage))

\* ------------------------------------------------------------- RateLimiter
RECURSIVE DropOldTimes(_, _)
DropOldTimes(times, cutoff) ==
    IF times # <<>> /\ times[1] < cutoff
    THEN DropOldTimes(Tail(times), cutoff)
    ELSE times

RECURSIVE DropOldUsage(_, _)
DropOldUsage(usage, cutoff) ==
    IF usage # <<>> /\ usage[1][1] < cutoff
    THEN DropOldUsage(Tail(usage), cutoff)
    ELSE usage

\* a cleanup that also drops the samples that are exactly 60 seconds old
CleanTimesAtCutoff(times, t) == DropOldTimes(times, t - Window + 1)

\* _cleanup_old_records: cutoff_time = now - 60, popleft while older
CleanTimes(times, t) == DropOldTimes(times, t - Window)
CleanUsage(usage, t) == DropOldUsage(usage, t - Window)

\* _get_rpm_wait_time with the comparison len > rpm_limit
GetRpmWaitTimeAboveLimit(times, t) ==
    IF Len(times) > RpmLimit
    THEN Max(0, Window - (t - times[1]))
    ELSE 0

\* _get_rpm_wait_time
GetRpmWaitTime(times, t) ==
    IF Len(times) >= RpmLimit
    THEN Max(0, Window - (t - times[1]))
    ELSE 0

\* _get_tpm_wait_time that waits a whole window when no usage is recorded
GetTpmWaitTimeNoEmptyCase(usage, t, estimated_tokens) ==
    IF SumTokens(usage) + estimated_tokens > TpmLimit
    THEN IF usage # <<>>
         THEN Max(0, Window - (t - usage[1][1]))
         ELSE Window
    ELSE 0

\* _get_tpm_wait_time
GetTpmWaitTime(usage, t, estimated_tokens) ==
    IF SumTokens(usage) + estimated_tokens > TpmLimit
    THEN IF usage # <<>>
         THEN Max(0, Window - (t - usage[1][1]))
         ELSE 0
    ELSE 0

\* wait_time computed in the critical section of acquire, after the cleanup
WaitTime(times, usage, t, estimated_tokens) ==
    Max(GetRpmWaitTime(times, t),
        IF estimated_tokens > 0
        THEN GetTpmWaitTime(usage, t, estimated_tokens)
        ELSE 0)

\* where the caller continues once acquire has returned
AfterGrant(k) == IF k = "bare" THEN "done" ELSE "admitted"

\* suspension points of acquire with the sleep inside the locked block
SuspendedUnderLockSleep == {"sleep"}

\* the suspension points of acquire that lie inside "async with self._lock":
\* none, the block has no await and asyncio.sleep comes after it
SuspendedUnderLock == {}

\* the caller is suspended and holds self._lock
HoldsLock(c) == pc[c] \in SuspendedUnderLock

\* async with self._lock: entered when no other caller holds the lock
LockAcquire(c) == \A d \in Callers \ {c} : ~HoldsLock(d)

\* One pass of the critical section of acquire that ends in the grant:
\* the sample is recorded and acquire returns.
AcquireGrant(c) ==
    LET times == CleanTimes(request_times, now)
        usage == CleanUsage(token_usage, now)
    IN  /\ pc[c] = "acquire"
        /\ LockAcquire(c)
        /\ WaitTime(times, usage, now, est[c]) <= 0
        /\ request_times' = Append(times, now)
        /\ token_usage' = IF est[c] > 0
                          THEN Append(usage, <<now, est[c]>>)
                          ELSE usage
        /\ pc' = [pc EXCEPT ![c] = AfterGrant(kind[c])]
        /\ grantTime' = [grantTime EXCEPT ![c] = now]
        /\ ev' = [ev EXCEPT ![c] = Append(@, "rate_granted")]
        /\ outcome' = [outcome EXCEPT ![c] =
                          IF kind[c] = "bare" THEN "granted" ELSE @]
        /\ UNCHANGED nonGate
        /\ UNCHANGED <<now, sem_value, kind, est, wakeAt, raised, timedOut, startAt>>

\* One pass of the critical section that ends in asyncio.sleep(wait_time);
\* the lock is released before the sleep.
AcquireWait(c) ==
    LET times == CleanTimes(request_times, now)
        usage == CleanUsage(token_usage, now)
        wait == WaitTime(times, usage, now, est[c])
    IN  /\ pc[c] = "acquire"
        /\ LockAcquire(c)
        /\ wait > 0
        /\ request_times' = times
        /\ token_usage' = usage
        /\ pc' = [pc EXCEPT ![c] = "sleep"]
        /\ wakeAt' = [wakeAt EXCEPT ![c] = now + wait]
        /\ UNCHANGED nonGate
        /\ UNCHANGED <<now, sem_value, kind, est, grantTime, ev, raised,
                       outcome, timedOut, startAt>>

\* asyncio.sleep returns (not before its deadline) and the loop retries
Wake(c) ==
    /\ pc[c] = "sleep"
    /\ now >= wakeAt[c]
    /\ pc' = [pc EXCEPT ![c] = "acquire"]
    /\ wakeAt' = [wakeAt EXCEPT ![c] = 0]
    /\ UNCHANGED nonGate
    /\ UNCHANGED <<now, request_times, token_usage, sem_value, kind, est,
                   grantTime, ev, raised, outcome, timedOut, startAt>>

\* the clock advances
Tick ==
    /\ now + TickStep <= MaxTime
    /\ now' = now + TickStep
    /\ UNCHANGED nonGate
    /\ UNCHANGED <<request_times, token_usage, sem_value, pc, kind, est,
                   wakeAt, grantTime, ev, raised, outcome, timedOut, startAt>>

\* callers are interchangeable: they are numbered in the order they start
StartsInOrder(c) == IF c = 1 THEN TRUE ELSE pc[c - 1] # "idle"

\* a direct call RateLimiter.acquire(estimated_tokens)
CallAcquire(c, estimated_tokens) ==
    /\ pc[c] = "idle"
    /\ StartsInOrder(c)
    /\ pc' = [pc EXCEPT ![c] = "acquire"]
    /\ kind' = [kind EXCEPT ![c] = "bare"]
    /\ est' = [est EXCEPT ![c] = estimated_tokens]
    /\ UNCHANGED nonGate
    /\ UNCHANGED <<now, request_times, token_usage, sem_value, wakeAt,
                   grantTime, ev, raised, outcome, timedOut, startAt>>

Init ==
    /\ now = 0
    /\ request_times = <<>>
    /\ token_usage = <<>>
    /\ sem_value = MaxConcurrent
    /\ pc = [c \in Callers |-> "idle"]
    /\ kind = [c \in Callers |-> "none"]
    /\ est = [c \in Callers |-> 0]
    /\ wakeAt = [c \in Callers |-> 0]
    /\ grantTime = [c \in Callers |-> -1]
    /\ ev = [c \in Callers |-> <<>>]
    /\ raised = [c \in Callers |-> ""]
    /\ outcome = [c \in Callers |-> ""]
    /\ timedOut = [c \in Callers |-> FALSE]
    /\ startAt = [c \in Callers |-> 0]
    /\ instances = <<>>
    /\ nextHandle = 0
    /\ ppc = [p \in PoolCallers |-> "idle"]
    /\ ptid = [p \in PoolCallers |-> <<>>]
    /\ result = [op |-> "none", tid |-> <<>>, val |-> "", h |-> 0,
                 constructed |-> FALSE,
                  stats |-> NoStats]
    /\ residentSince = [t \in TenantIds |-> 0]
    /\ lastHit = [t \in TenantIds |-> NoHit]
    /\ scen = 0
    /\ evicted = [p \in PoolCallers |-> <<>>]
    /\ InitJobs
    /\ InitConfig
    /\ InitStore
    /\ InitMineru

NextLimiter ==
    \/ \E c \in Callers, e \in Tokens : CallAcquire(c, e)
    \/ \E c \in Callers : AcquireGrant(c)
    \/ \E c \in Callers : AcquireWait(c)
    \/ \E c \in Callers : Wake(c)
    \/ Tick

SpecLimiter == Init /\ [][NextLimiter]_vars

\* ---------------------------------------- RateLimiter with a running clock
\* time.time() has no upper end.  Once the clock has reached MaxTime the
\* origin of time is moved forward by TickStep instead: now keeps its value
\* and every stored time is lowered by TickStep.  A sample that has left the
\* window is dropped by the next _cleanup_old_records whatever its value, and
\* a sleep whose end has passed returns whatever its end was, so such values
\* are kept at a floor.  grantTime keeps the clock reading at the grant.
ShiftSample(t) == Max(t - TickStep, now - Window - 1)

ShiftTimes(times) == [i \in 1..Len(times) |-> ShiftSample(times[i])]

ShiftUsage(usage) ==
    [i \in 1..Len(usage) |-> <<ShiftSample(usage[i][1]), usage[i][2]>>]

MoveOrigin ==
    /\ now + TickStep > MaxTime
    /\ request_times' = ShiftTimes(request_times)
    /\ token_usage' = ShiftUsage(token_usage)
    /\ wakeAt' = [c \in Callers |-> Max(wakeAt[c] - TickStep, 0)]
    /\ UNCHANGED nonGate
    /\ UNCHANGED <<now, sem_value, pc, kind, est, grantTime, ev, raised,
                   outcome, timedOut, startAt>>

NextLimiterFair ==
    \/ \E c \in Callers, e \in Tokens : CallAcquire(c, e)
    \/ \E c \in Callers : AcquireGrant(c)
    \/ \E c \in Callers : AcquireWait(c)
    \/ \E c \in Callers : Wake(c)
    \/ Tick
    \/ MoveOrigin

\* the event loop runs every coroutine that is ready (the pass through the
\* critical section under the FIFO asyncio.Lock, the return of a sleep whose
\* end has passed), and time passes
SpecLimiterFair ==
    /\ Init
    /\ [][NextLimiterFair]_vars
    /\ WF_vars(Tick \/ MoveOrigin)
    /\ \A c \in Callers :
          /\ WF_vars(AcquireGrant(c) \/ AcquireWait(c))
          /\ WF_vars(Wake(c))

\* ------------------------------------------- gate and the wrappers using it
\* estimated_tokens the entry point passes to RateLimiter.acquire:
\* __aenter__ passes 0, the wrappers a positive estimate
EstOf(k) == IF k = "gate" THEN 0 ELSE SmallEst

\* asyncio.Semaphore.release
SemRelease(v) == v + 1

\* an exit that releases only when the scope ends normally
SemAexitKeepsOnError(v, exc) == IF exc = "" THEN SemRelease(v) ELSE v

\* Semaphore.__aexit__(exc_type, exc_val, exc_tb): releases whatever the
\* exception; exc is "" when the scope ends normally
SemAexit(v, exc) == SemRelease(v)

\* the error that leaves the wrapper when the upstream call raised e:
\* seed_vision_model_func logs and re-raises
Propagate(e) == e

\* an entry point is called
StartCall(c, k) ==
    /\ pc[c] = "idle"
    /\ StartsInOrder(c)
    /\ pc' = [pc EXCEPT ![c] = "sem"]
    /\ kind' = [kind EXCEPT ![c] = k]
    /\ est' = [est EXCEPT ![c] = EstOf(k)]
    /\ startAt' = [startAt EXCEPT ![c] = IF k = "sync" THEN now ELSE @]
    /\ UNCHANGED nonGate
    /\ UNCHANGED <<now, request_times, token_usage, sem_value, wakeAt,
                   grantTime, ev, raised, outcome, timedOut>>

\* semaphore.__aenter__ / semaphore.acquire: takes a slot when one is free
SemAcquire(c) ==
    /\ pc[c] = "sem"
    /\ sem_value > 0
    /\ sem_value' = sem_value - 1
    /\ pc' = [pc EXCEPT ![c] = "acquire"]
    /\ ev' = [ev EXCEPT ![c] = Append(@, "slot_acquired")]
    /\ UNCHANGED nonGate
    /\ UNCHANGED <<now, request_times, token_usage, kind, est, wakeAt,
                   grantTime, raised, outcome, timedOut, startAt>>

\* sync wrappers: future.result(timeout=MODEL_CALL_TIMEOUT) expires while the
\* worker thread is still inside asyncio.run; leaving the ThreadPoolExecutor
\* block then waits for that thread, which goes on unaffected
FutureTimeout(c) ==
    /\ kind[c] = "sync"
    /\ pc[c] \in {"sem", "acquire", "sleep"}
    /\ ~timedOut[c]
    /\ now >= startAt[c] + ModelCallTimeout
    /\ timedOut' = [timedOut EXCEPT ![c] = TRUE]
    /\ UNCHANGED nonGate
    /\ UNCHANGED <<now, request_times, token_usage, sem_value, pc, kind, est,
                   wakeAt, grantTime, ev, raised, outcome, startAt>>

\* sync wrappers: after the grant the coroutine returns the awaitable that
\* openai_complete_if_cache / openai_embed / cohere_rerank hand back, without
\* awaiting it, and the semaphore scope ends
ScopeExitSync(c) ==
    /\ kind[c] = "sync"
    /\ pc[c] = "admitted"
    /\ sem_value' = SemAexit(sem_value, "")
    /\ ev' = [ev EXCEPT ![c] = Append(@, "slot_released")]
    /\ pc' = [pc EXCEPT ![c] = IF timedOut[c] THEN "done" ELSE "returned"]
    /\ outcome' = [outcome EXCEPT ![c] = IF timedOut[c] THEN "timeout" ELSE @]
    /\ startAt' = [startAt EXCEPT ![c] = 0]
    /\ UNCHANGED nonGate
    /\ UNCHANGED <<now, request_times, token_usage, kind, est, wakeAt,
                   grantTime, raised, timedOut>>

\* the upstream request starts: inside the scope for the vision function and
\* the gate's own callers, when the consumer awaits the returned awaitable for
\* the sync wrappers
UpstreamStart(c) ==
    /\ \/ kind[c] = "sync" /\ pc[c] = "returned"
       \/ kind[c] \in {"vision", "gate", "awt"} /\ pc[c] = "admitted"
    /\ pc' = [pc EXCEPT ![c] = "upcall"]
    /\ ev' = [ev EXCEPT ![c] = Append(@, "call_started")]
    /\ UNCHANGED nonGate
    /\ UNCHANGED <<now, request_times, token_usage, sem_value, kind, est,
                   wakeAt, grantTime, raised, outcome, timedOut, startAt>>

\* the slot count once the upstream call has ended with exc ("" for a result)
SemAfterCall(k, v, exc) ==
    CASE k = "sync" -> v
      [] k = "awt" -> SemRelease(v)
      [] OTHER -> SemAexit(v, exc)

EvAfterCall(k, log) ==
    IF k = "sync"
    THEN Append(log, "call_finished")
    ELSE log \o <<"call_finished", "slot_released">>

\* the upstream call returns a response
UpstreamReturn(c) ==
    /\ pc[c] = "upcall"
    /\ sem_value' = SemAfterCall(kind[c], sem_value, "")
    /\ ev' = [ev EXCEPT ![c] = EvAfterCall(kind[c], @)]
    /\ pc' = [pc EXCEPT ![c] = "done"]
    /\ outcome' = [outcome EXCEPT ![c] = "ok"]
    /\ UNCHANGED nonGate
    /\ UNCHANGED <<now, request_times, token_usage, kind, est, wakeAt,
                   grantTime, raised, timedOut, startAt>>

\* the upstream call raises e
UpstreamRaise(c, e) ==
    /\ pc[c] = "upcall"
    /\ sem_value' = SemAfterCall(kind[c], sem_value, e)
    /\ ev' = [ev EXCEPT ![c] = EvAfterCall(kind[c], @)]
    /\ pc' = [pc EXCEPT ![c] = "done"]
    /\ raised' = [raised EXCEPT ![c] = e]
    /\ outcome' = [outcome EXCEPT ![c] = Propagate(e)]
    /\ UNCHANGED nonGate
    /\ UNCHANGED <<now, request_times, token_usage, kind, est, wakeAt,
                   grantTime, timedOut, startAt>>

\* seed_vision_model_func is cancelled (or timed out by its caller) while
\* RateLimiter.acquire sleeps: the async with block releases the slot
CancelInScope(c) ==
    /\ kind[c] = "vision"
    /\ pc[c] = "sleep"
    /\ sem_value' = SemAexit(sem_value, "CancelledError")
    /\ ev' = [ev EXCEPT ![c] = Append(@, "slot_released")]
    /\ pc' = [pc EXCEPT ![c] = "done"]
    /\ outcome' = [outcome EXCEPT ![c] = "cancelled"]
    /\ wakeAt' = [wakeAt EXCEPT ![c] = 0]
    /\ UNCHANGED nonGate
    /\ UNCHANGED <<now, request_times, token_usage, kind, est, 
                   grantTime, raised, timedOut, startAt>>

\* __aenter__ or acquire_with_tokens is cancelled (or timed out by its
\* caller) while RateLimiter.acquire sleeps: __aexit__ does not run for an
\* __aenter__ that raised, and "except Exception" does not catch
\* CancelledError, so nothing releases the slot
CancelInEnter(c) ==
    /\ kind[c] \in {"gate", "awt"}
    /\ pc[c] = "sleep"
    /\ pc' = [pc EXCEPT ![c] = "done"]
    /\ outcome' = [outcome EXCEPT ![c] = "cancelled"]
    /\ wakeAt' = [wakeAt EXCEPT ![c] = 0]
    /\ UNCHANGED nonGate
    /\ UNCHANGED <<now, request_times, token_usage, sem_value, kind, est,
                    grantTime, ev, raised, timedOut, startAt>>

NextGate ==
    \/ \E c \in Callers, k \in GateKinds : StartCall(c, k)
    \/ \E c \in Callers : SemAcquire(c)
    \/ \E c \in Callers : AcquireGrant(c)
    \/ \E c \in Callers : AcquireWait(c)
    \/ \E c \in Callers : Wake(c)
    \/ \E c \in Callers : FutureTimeout(c)
    \/ \E c \in Callers : ScopeExitSync(c)
    \/ \E c \in Callers : UpstreamStart(c)
    \/ \E c \in Callers : UpstreamReturn(c)
    \/ \E c \in Callers, e \in Errors : UpstreamRaise(c, e)
    \/ \E c \in Callers : CancelInScope(c)
    \/ \E c \in Callers : CancelInEnter(c)
    \/ Tick

SpecGate == Init /\ [][NextGate]_vars

\* ------------------------------------------------ MultiTenantRAGManager
\* str.replace(ch, '')
Remove(str, ch) == SelectSeq(str, LAMBDA x : x # ch)

\* str.isalnum(): false for the empty string
IsAlnum(str) == str # <<>> /\ \A i \in DOMAIN str : str[i] \in AlnumChars

\* tenant_deps.validate_tenant_access
ValidateTenantAccess(t) ==
    IF t = <<>> THEN FALSE
    ELSE IF Len(t) < TenantIdMinLength \/ Len(t) > TenantIdMaxLength THEN FALSE
    ELSE IF ~IsAlnum(Remove(Remove(t, "_"), "-")) THEN FALSE
    ELSE TRUE

\* the check get_instance itself makes: "not tenant_id or not isinstance(..)"
GetInstanceAccepts(t) == t # <<>>

Resident(t) == \E i \in DOMAIN instances : instances[i].tid = t

HandleOf(t) ==
    LET i == CHOOSE j \in DOMAIN instances : instances[j].tid = t
    IN  instances[i].h

Tenants(insts) == [i \in DOMAIN insts |-> insts[i].tid]

\* a cache that refreshes recency on access
HitPoolMoveToEnd(insts, t) ==
    SelectSeq(insts, LAMBDA e : e.tid # t)
        \o SelectSeq(insts, LAMBDA e : e.tid = t)

\* what a cache hit does to the dict: nothing
HitPool(insts, t) == insts

\* eviction that drops the newest entry
EvictNewest(insts) == SubSeq(insts, 1, Len(insts) - 1)

\* oldest_tenant = next(iter(self._instances)); del self._instances[oldest]
EvictOldest(insts) == Tail(insts)

\* if len(self._instances) >= self.max_instances: evict
AfterCapacityCheck(insts) ==
    IF Len(insts) >= MaxInstances THEN EvictOldest(insts) ELSE insts

\* an assignment that adds an entry whether or not the key is there
DictAppend(insts, t, h) == Append(insts, [tid |-> t, h |-> h])

\* self._instances[tenant_id] = instance: a new key goes last, an existing
\* key keeps its place
DictSet(insts, t, h) ==
    IF \E i \in DOMAIN insts : insts[i].tid = t
    THEN [i \in DOMAIN insts |->
             IF insts[i].tid = t THEN [tid |-> t, h |-> h] ELSE insts[i]]
    ELSE Append(insts, [tid |-> t, h |-> h])

\* a removal that empties the dict
DictClear(insts, t) == <<>>

\* del self._instances[tenant_id]
DictDel(insts, t) == SelectSeq(insts, LAMBDA e : e.tid # t)

\* history bookkeeping for the tenants that left the dict
Forget(hist, insts, none) ==
    [t \in TenantIds |->
        IF \E i \in DOMAIN insts : insts[i].tid = t THEN hist[t] ELSE none]

Scenario == << <<"a">>, <<"b">>, <<"c">>, <<"a">> >>

AllIdle == \A q \in PoolCallers : ppc[q] = "idle"

\* get_instance with an id the function itself rejects
GetInstanceInvalid(p, t) ==
    /\ ppc[p] = "idle"
    /\ ~GetInstanceAccepts(t)
    /\ result' = [op |-> "get_instance", tid |-> t, val |-> "ValueError",
                  h |-> 0, constructed |-> FALSE,
                  stats |-> NoStats]
    /\ scen' = -1
    /\ UNCHANGED <<instances, nextHandle, ppc, ptid, residentSince, lastHit>>
    /\ UNCHANGED evicted
    /\ UNCHANGED nonPool

\* get_instance for a cached tenant
GetInstanceHit(p, t) ==
    /\ ppc[p] = "idle"
    /\ GetInstanceAccepts(t)
    /\ Resident(t)
    /\ instances' = HitPool(instances, t)
    /\ result' = [op |-> "get_instance", tid |-> t, val |-> "ok",
                  h |-> HandleOf(t), constructed |-> FALSE,
                  stats |-> NoStats]
    /\ lastHit' = [lastHit EXCEPT ![t] = [h |-> HandleOf(t), replaced |-> FALSE]]
    /\ scen' = -1
    /\ UNCHANGED <<nextHandle, ppc, ptid, residentSince>>
    /\ UNCHANGED evicted
    /\ UNCHANGED nonPool

\* get_instance for a tenant that is not cached, up to the first suspension
\* inside _create_instance: the capacity check and the eviction
GetInstanceMiss(p, t) ==
    /\ ppc[p] = "idle"
    /\ GetInstanceAccepts(t)
    /\ ~Resident(t)
    /\ nextHandle + Cardinality({q \in PoolCallers : ppc[q] = "creating"})
          < MaxHandles
    /\ instances' = AfterCapacityCheck(instances)
    /\ residentSince' = Forget(residentSince, instances', 0)
    /\ lastHit' = Forget(lastHit, instances', NoHit)
    /\ ppc' = [ppc EXCEPT ![p] = "creating"]
    /\ ptid' = [ptid EXCEPT ![p] = t]
    /\ scen' = IF scen \in 0..3 /\ AllIdle /\ t = Scenario[scen + 1]
               THEN scen ELSE -1
    /\ UNCHANGED <<nextHandle, result>>
    /\ evicted' = [evicted EXCEPT ![p] =
                      IF Len(instances) >= MaxInstances
                        THEN <<instances[1]>> ELSE <<>>]
    /\ UNCHANGED nonPool

\* _create_instance returns: the instance is stored and returned
CreateDone(p) ==
    LET t == ptid[p]
        h == nextHandle + 1
    IN  /\ ppc[p] = "creating"
        /\ nextHandle' = h
        /\ instances' = DictSet(instances, t, h)
        /\ residentSince' = IF Resident(t) THEN residentSince
                            ELSE [residentSince EXCEPT ![t] = h]
        /\ lastHit' = IF Resident(t) /\ lastHit[t].h # 0
                      THEN [lastHit EXCEPT ![t].replaced = TRUE]
                      ELSE lastHit
        /\ result' = [op |-> "get_instance", tid |-> t, val |-> "ok",
                      h |-> h, constructed |-> TRUE,
                  stats |-> NoStats]
        /\ ppc' = [ppc EXCEPT ![p] = "idle"]
        /\ ptid' = [ptid EXCEPT ![p] = <<>>]
        /\ scen' = IF scen >= 0 THEN scen + 1 ELSE -1
        /\ evicted' = [evicted EXCEPT ![p] = <<>>]
        /\ UNCHANGED nonPool

\* _create_instance raises: the error leaves get_instance
CreateFail(p) ==
    /\ ppc[p] = "creating"
    /\ result' = [op |-> "get_instance", tid |-> ptid[p], val |-> "error",
                  h |-> 0, constructed |-> FALSE,
                  stats |-> NoStats]
    /\ ppc' = [ppc EXCEPT ![p] = "idle"]
    /\ ptid' = [ptid EXCEPT ![p] = <<>>]
    /\ scen' = -1
    /\ UNCHANGED <<instances, nextHandle, residentSince, lastHit>>
    /\ evicted' = [evicted EXCEPT ![p] = <<>>]
    /\ UNCHANGED nonPool

\* remove_instance
RemoveInstance(t) ==
    /\ instances' = IF Resident(t) THEN DictDel(instances, t) ELSE instances
    /\ result' = [op |-> "remove_instance", tid |-> t,
                  val |-> IF Resident(t) THEN "True" ELSE "False",
                  h |-> 0, constructed |-> FALSE,
                  stats |-> NoStats]
    /\ residentSince' = Forget(residentSince, instances', 0)
    /\ lastHit' = Forget(lastHit, instances', NoHit)
    /\ scen' = -1
    /\ UNCHANGED <<nextHandle, ppc, ptid>>
    /\ UNCHANGED evicted
    /\ UNCHANGED nonPool

\* get_stats
GetStats ==
    /\ result' = [op |-> "get_stats", tid |-> <<>>, val |-> "ok", h |-> 0,
                  constructed |-> FALSE,
                  stats |-> [total_instances |-> Len(instances),
                             max_instances |-> MaxInstances,
                             tenants |-> Tenants(instances)]]
    /\ scen' = -1
    /\ UNCHANGED <<instances, nextHandle, ppc, ptid, residentSince, lastHit>>
    /\ UNCHANGED evicted
    /\ UNCHANGED nonPool

NextPool ==
    \/ \E p \in PoolCallers, t \in TenantIds : GetInstanceInvalid(p, t)
    \/ \E p \in PoolCallers, t \in TenantIds : GetInstanceHit(p, t)
    \/ \E p \in PoolCallers, t \in TenantIds : GetInstanceMiss(p, t)
    \/ \E p \in PoolCallers : CreateDone(p)
    \/ \E p \in PoolCallers : CreateFail(p)
    \/ \E t \in TenantIds : RemoveInstance(t)
    \/ GetStats

SpecPool == Init /\ [][NextPool]_vars

\* ----------------------------------------- task store and the job routes
TerminalStatuses == {"completed", "failed"}

\* _MemoryStore.get_task: self.tasks.get(tenant_id, {}).get(task_id)
GetTask(ts, tn, k) == IF k \in TaskIds THEN ts[tn][k] ELSE NoTask

\* _MemoryStore.create_task
CreateTask(ts, tn, k, info) == [ts EXCEPT ![tn][k] = info]

\* _MemoryStore.update_task with status=st: sets the attribute when the
\* task is in the store, whatever its present status; else does nothing
UpdateTask(ts, tn, k, st) ==
    IF GetTask(ts, tn, k) # NoTask
      THEN [ts EXCEPT ![tn][k].status = st]
      ELSE ts

\* _MemoryStore.delete_task
DeleteTask(ts, tn, k) ==
    IF GetTask(ts, tn, k) # NoTask THEN [ts EXCEPT ![tn][k] = NoTask] ELSE ts

\* a lookup that sees only the jobs whose worker has started
GetDeletionTaskStartedOnly(ts, tn, d) ==
    \E k \in TaskIds :
        /\ ts[tn][k] # NoTask
        /\ ts[tn][k].doc = d
        /\ ts[tn][k].status = "deleting"

\* get_deletion_task(tenant_id, doc_id) is not None: some task of the tenant
\* has this doc_id and status pending or deleting
GetDeletionTask(ts, tn, d) ==
    \E k \in TaskIds :
        /\ ts[tn][k] # NoTask
        /\ ts[tn][k].doc = d
        /\ ts[tn][k].status \in {"pending", "deleting"}

Respond(o, tn, d, c) ==
    [op |-> o, tenant |-> tn, doc |-> d, code |-> c, counts |-> NoCounts]

\* POST /insert: ok is FALSE for an empty or oversized upload
InsertDocument(tn, d, ok) ==
    /\ nextTask < MaxTasks
    /\ d # nextTask + 1
    /\ IF ok
         THEN /\ nextTask' = nextTask + 1
              /\ tasks' = CreateTask(tasks, tn, nextTask + 1,
                     [kind |-> "insert", doc |-> d, status |-> "pending"])
              /\ wpc' = [wpc EXCEPT ![nextTask + 1] = "queued"]
              /\ wargs' = [wargs EXCEPT ![nextTask + 1] =
                     [tenant |-> tn, doc |-> d, kind |-> "insert"]]
              /\ jresp' = Respond("insert", tn, d, 202)
         ELSE /\ jresp' = Respond("insert", tn, d, 400)
              /\ UNCHANGED <<tasks, nextTask, wpc, wargs>>
    /\ UNCHANGED <<batches, nextBatch, sync>>
    /\ UNCHANGED <<gvars, pvars, cvars, svars, mvars>>

\* the doc_ids of the files of a batch that pass the size checks, in order
RECURSIVE AcceptedDocs(_)
AcceptedDocs(files) ==
    IF files = <<>> THEN <<>>
    ELSE (IF files[1].ok THEN <<files[1].doc>> ELSE <<>>)
            \o AcceptedDocs(Tail(files))

BatchFiles ==
    UNION {[1..n -> [doc : DocIds, ok : BOOLEAN]] : n \in 1..MaxBatchFiles}

\* POST /batch
InsertBatch(tn, files) ==
    LET docs == AcceptedDocs(files)
        n == Len(docs)
        new == (nextTask + 1)..(nextTask + n)
    IN  /\ nextTask + n <= MaxTasks
        /\ nextBatch < NumBatches
        /\ \A i \in 1..n : docs[i] # nextTask + i
        /\ IF n = 0
             THEN /\ jresp' = Respond("insert_batch", tn, 0, 400)
                  /\ UNCHANGED <<tasks, batches, nextTask, nextBatch, wpc,
                                 wargs>>
             ELSE /\ nextTask' = nextTask + n
                  /\ nextBatch' = nextBatch + 1
                  /\ tasks' = [tasks EXCEPT ![tn] =
                        [k \in TaskIds |->
                            IF k \in new
                              THEN [kind |-> "insert",
                                    doc |-> docs[k - nextTask],
                                    status |-> "pending"]
                              ELSE tasks[tn][k]]]
                  /\ wpc' = [k \in TaskIds |->
                                IF k \in new THEN "queued" ELSE wpc[k]]
                  /\ wargs' = [k \in TaskIds |->
                        IF k \in new
                          THEN [tenant |-> tn, doc |-> docs[k - nextTask],
                                kind |-> "insert"]
                          ELSE wargs[k]]
                  /\ batches' = [batches EXCEPT ![tn][nextBatch + 1] =
                        [task_ids |-> [i \in 1..n |-> nextTask + i],
                         total |-> n, created_at |-> "t1"]]
                  /\ jresp' = Respond("insert_batch", tn, 0, 200)
        /\ UNCHANGED sync
        /\ UNCHANGED <<gvars, pvars, cvars, svars, mvars>>

\* DELETE /documents
DeleteDocument(tn, d) ==
    /\ IF GetDeletionTask(tasks, tn, d)
         THEN /\ jresp' = Respond("delete", tn, d, 400)
              /\ UNCHANGED <<tasks, nextTask, wpc, wargs>>
         ELSE /\ nextTask < MaxTasks
              /\ d # nextTask + 1
              /\ nextTask' = nextTask + 1
              /\ tasks' = CreateTask(tasks, tn, nextTask + 1,
                     [kind |-> "deletion", doc |-> d, status |-> "pending"])
              /\ wpc' = [wpc EXCEPT ![nextTask + 1] = "queued"]
              /\ wargs' = [wargs EXCEPT ![nextTask + 1] =
                     [tenant |-> tn, doc |-> d, kind |-> "deletion"]]
              /\ jresp' = Respond("delete", tn, d, 202)
    /\ UNCHANGED <<batches, nextBatch, sync>>
    /\ UNCHANGED <<gvars, pvars, cvars, svars, mvars>>

\* process_document_task / execute_document_deletion: first statement
WorkerStart(k) ==
    /\ wpc[k] = "queued"
    /\ wpc' = [wpc EXCEPT ![k] = "running"]
    /\ tasks' = UpdateTask(tasks, wargs[k].tenant, k,
                    IF wargs[k].kind = "insert" THEN "processing"
                                                ELSE "deleting")
    /\ UNCHANGED <<batches, nextTask, nextBatch, wargs, sync, jresp>>
    /\ UNCHANGED <<gvars, pvars, cvars, svars, mvars>>

\* process_document_task: the parsing and insertion returned (ok) or raised
InsertWorkerEnd(k, ok) ==
    /\ wpc[k] = "running"
    /\ wargs[k].kind = "insert"
    /\ wpc' = [wpc EXCEPT ![k] = "done"]
    /\ tasks' = UpdateTask(tasks, wargs[k].tenant, k,
                    IF ok THEN "completed" ELSE "failed")
    /\ UNCHANGED <<batches, nextTask, nextBatch, wargs, sync, jresp>>
    /\ UNCHANGED <<gvars, pvars, cvars, svars, mvars>>

\* execute_document_deletion: adelete_by_doc_id returned (ok) or an await
\* raised
DeletionWorkerEnd(k, ok) ==
    /\ wpc[k] = "running"
    /\ wargs[k].kind = "deletion"
    /\ wpc' = [wpc EXCEPT ![k] = "done"]
    /\ tasks' =
         IF ok
           THEN UpdateTask(DeleteTask(tasks, wargs[k].tenant, wargs[k].doc),
                           wargs[k].tenant, k, "completed")
           ELSE UpdateTask(tasks, wargs[k].tenant, k, "failed")
    /\ UNCHANGED <<batches, nextTask, nextBatch, wargs, sync, jresp>>
    /\ UNCHANGED <<gvars, pvars, cvars, svars, mvars>>

\* GET /task/{task_id} up to its first suspension
GetTaskStatus(tn, k) ==
    /\ sync = NoSync
    /\ IF GetTask(tasks, tn, k) = NoTask
         THEN /\ jresp' = Respond("task", tn, 0, 404)
              /\ UNCHANGED sync
         ELSE IF GetTask(tasks, tn, k).status = "processing"
           THEN /\ sync' = [tenant |-> tn, task_id |-> k]
                /\ UNCHANGED jresp
           ELSE /\ jresp' = Respond("task", tn, 0, 200)
                /\ UNCHANGED sync
    /\ UNCHANGED <<tasks, batches, nextTask, nextBatch, wpc, wargs>>
    /\ UNCHANGED <<gvars, pvars, cvars, svars, mvars>>

\* what LightRAG's doc_status holds for the document, or "error" when the
\* lookup raises or finds nothing
DocStatuses == {"processed", "failed", "processing", "error"}

\* sync_task_with_lightrag after doc_status.get_by_id returned
SyncTaskWithLightrag(doc_status) ==
    /\ sync # NoSync
    /\ tasks' =
         IF doc_status = "processed"
           THEN UpdateTask(tasks, sync.tenant, sync.task_id, "completed")
         ELSE IF doc_status = "failed"
           THEN UpdateTask(tasks, sync.tenant, sync.task_id, "failed")
         ELSE tasks
    /\ sync' = NoSync
    /\ jresp' = Respond("task", sync.tenant, 0, 200)
    /\ UNCHANGED <<batches, nextTask, nextBatch, wpc, wargs>>
    /\ UNCHANGED <<gvars, pvars, cvars, svars, mvars>>

\* get_batch_status: the status of each member, "unknown" when get_task
\* finds nothing
RECURSIVE RelatedTasks(_, _, _)
RelatedTasks(ts, tn, ids) ==
    IF ids = <<>> THEN <<>>
    ELSE <<(IF GetTask(ts, tn, ids[1]) # NoTask
              THEN GetTask(ts, tn, ids[1]).status
              ELSE "unknown")>>
            \o RelatedTasks(ts, tn, Tail(ids))

\* sum(1 for t in related_tasks if t['status'] == st)
RECURSIVE CountStatus(_, _)
CountStatus(related, st) ==
    IF related = <<>> THEN 0
    ELSE (IF related[1] = st THEN 1 ELSE 0) + CountStatus(Tail(related), st)

\* counters fixed when the batch was created
BatchCountsAtCreation(ts, tn, batch_info) ==
    [total |-> batch_info.total, completed |-> 0, failed |-> 0,
     pending |-> batch_info.total, processing |-> 0]

\* the counters of the response of get_batch_status; progress is
\* completed / total
BatchCounts(ts, tn, batch_info) ==
    LET related == RelatedTasks(ts, tn, batch_info.task_ids)
    IN  [total |-> batch_info.total,
         completed |-> CountStatus(related, "completed"),
         failed |-> CountStatus(related, "failed"),
         pending |-> CountStatus(related, "pending"),
         processing |-> CountStatus(related, "processing")]

\* GET /batch/{batch_id}; the response names the batch_id (field doc)
GetBatchStatus(tn, b) ==
    /\ jresp' =
         IF batches[tn][b] = NoBatch
           THEN Respond("batch", tn, b, 404)
           ELSE [Respond("batch", tn, b, 200) EXCEPT
                    !.counts = BatchCounts(tasks, tn, batches[tn][b])]
    /\ UNCHANGED <<tasks, batches, nextTask, nextBatch, wpc, wargs, sync>>
    /\ UNCHANGED <<gvars, pvars, cvars, svars, mvars>>

NextJobs ==
    \/ \E tn \in JobTenants, d \in DocIds, ok \in BOOLEAN :
          InsertDocument(tn, d, ok)
    \/ \E tn \in JobTenants, files \in BatchFiles : InsertBatch(tn, files)
    \/ \E tn \in JobTenants, d \in DocIds : DeleteDocument(tn, d)
    \/ \E k \in TaskIds : WorkerStart(k)
    \/ \E k \in TaskIds, ok \in BOOLEAN : InsertWorkerEnd(k, ok)
    \/ \E k \in TaskIds, ok \in BOOLEAN : DeletionWorkerEnd(k, ok)
    \/ \E tn \in JobTenants, k \in TaskIds : GetTaskStatus(tn, k)
    \/ \E ds \in DocStatuses : SyncTaskWithLightrag(ds)
    \/ \E tn \in JobTenants, b \in BatchIds : GetBatchStatus(tn, b)

SpecJobs == Init /\ [][NextJobs]_vars

\* BackgroundTasks runs every task that was added once the response is sent,
\* and every await of a worker returns or raises
SpecJobsFair ==
    /\ Init
    /\ [][NextJobs]_vars
    /\ \A k \in TaskIds :
          /\ WF_vars(WorkerStart(k))
          /\ WF_vars(\E ok \in BOOLEAN : InsertWorkerEnd(k, ok))
          /\ WF_vars(\E ok \in BOOLEAN : DeletionWorkerEnd(k, ok))

\* ------------------------------------------------- double-precision floats
\* A positive double is [m, e]: m the 53 bits of its significand, most
\* significant first, and the value is m read as an integer times 2^e.
\* Long multiplication and division work on limbs of 11 bits.
Precision == 53

RECURSIVE Pow2(_)
Pow2(n) == IF n = 0 THEN 1 ELSE 2 * Pow2(n - 1)

\* binary digits of a positive integer, most significant first
RECURSIVE Bin(_)
Bin(n) == IF n < 2 THEN <<n>> ELSE Append(Bin(n \div 2), n % 2)

RECURSIVE BitsToInt(_)
BitsToInt(bits) ==
    IF bits = <<>> THEN 0
    ELSE 2 * BitsToInt(SubSeq(bits, 1, Len(bits) - 1)) + bits[Len(bits)]

Zeros(n) == [i \in 1..n |-> 0]

\* bits without its leading zeros
StripZeros(bits) ==
    LET ones == {i \in DOMAIN bits : bits[i] = 1}
    IN  IF ones = {} THEN <<>>
        ELSE SubSeq(bits, CHOOSE i \in ones : \A j \in ones : i <= j,
                    Len(bits))

\* bits as limbs of 11 bits, most significant first
ToLimbs(bits) ==
    LET pad == (11 - (Len(bits) % 11)) % 11
        padded == Zeros(pad) \o bits
    IN  [k \in 1..(Len(padded) \div 11) |->
            BitsToInt(SubSeq(padded, 11 * (k - 1) + 1, 11 * k))]

FromLimbs(limbs) ==
    [i \in 1..(11 * Len(limbs)) |->
        (limbs[(i - 1) \div 11 + 1] \div Pow2(10 - ((i - 1) % 11))) % 2]

\* bits + 1; one bit longer when every bit is 1
IncBits(bits) ==
    LET zeros == {i \in DOMAIN bits : bits[i] = 0}
    IN  IF zeros = {} THEN <<1>> \o Zeros(Len(bits))
        ELSE LET p == CHOOSE i \in zeros : \A j \in zeros : j <= i
             IN  SubSeq(bits, 1, p - 1) \o <<1>> \o Zeros(Len(bits) - p)

\* round-to-nearest, ties-to-even, of the exact value
\* (bits read as an integer + a fraction that is non-zero iff sticky) * 2^e;
\* bits starts with 1
RoundNearestEven(bits, e, sticky) ==
    LET padded == IF Len(bits) > Precision THEN bits
                  ELSE bits \o Zeros(Precision + 1 - Len(bits))
        pe == e - (Len(padded) - Len(bits))
        keep == SubSeq(padded, 1, Precision)
        roundBit == padded[Precision + 1]
        rest == \E i \in (Precision + 2)..Len(padded) : padded[i] = 1
        ne == pe + (Len(padded) - Precision)
        up == roundBit = 1 /\ (sticky \/ rest \/ keep[Precision] = 1)
        inc == IncBits(keep)
    IN  IF ~up THEN [m |-> keep, e |-> ne]
        ELSE IF Len(inc) > Precision
          THEN [m |-> SubSeq(inc, 1, Precision), e |-> ne + 1]
          ELSE [m |-> inc, e |-> ne]

\* limbs * n + carry as limbs, for a positive integer n below 2^19
RECURSIVE MulLimbs(_, _, _)
MulLimbs(limbs, n, carry) ==
    IF limbs = <<>> THEN ToLimbs(Bin(carry))
    ELSE LET t == limbs[Len(limbs)] * n + carry
         IN  Append(MulLimbs(SubSeq(limbs, 1, Len(limbs) - 1), n,
                             t \div 2048),
                    t % 2048)

\* float(n) * f for a positive integer n
FloatMulInt(n, f) ==
    RoundNearestEven(StripZeros(FromLimbs(MulLimbs(ToLimbs(f.m), n, 0))),
                     f.e, FALSE)

\* long division of limbs by n, starting with remainder r: the quotient limbs
\* followed by the final remainder
RECURSIVE DivLimbs(_, _, _)
DivLimbs(limbs, n, r) ==
    IF limbs = <<>> THEN <<r>>
    ELSE LET t == 2048 * r + limbs[1]
         IN  <<t \div n>> \o DivLimbs(Tail(limbs), n, t % n)

\* (bits * 2^e) / float(n) for a positive integer n below 2^19: the dividend
\* is extended below the binary point until Precision + 1 bits of the
\* quotient are known
FloatDivInt(bits, e, n) ==
    LET short == Precision + 1 + Len(Bin(n)) - Len(bits)
        fed == IF short > 0 THEN short ELSE 0
        d == DivLimbs(ToLimbs(bits \o Zeros(fed)), n, 0)
        q == StripZeros(FromLimbs(SubSeq(d, 1, Len(d) - 1)))
    IN  RoundNearestEven(q, e - fed, d[Len(d)] # 0)

\* int(f): truncation
FloatToInt(f) ==
    LET k == Precision + f.e
    IN  IF k <= 0 THEN 0
        ELSE IF k <= Precision THEN BitsToInt(SubSeq(f.m, 1, k))
        ELSE BitsToInt(f.m) * Pow2(k - Precision)

\* ---------------------------------------------------------- gate registry
Min(a, b) == IF a <= b THEN a ELSE b

\* calculate_optimal_concurrent up to min(concurrent_by_rpm,
\* concurrent_by_tpm).  rpm, tpm, avg and duration are requests_per_minute,
\* tokens_per_minute, avg_tokens_per_request and
\* avg_request_duration_seconds; the duration is a float with a whole value
Optimal(rpm, tpm, avg, duration) ==
    LET concurrent_by_rpm == rpm
        per_second == FloatDivInt(Bin(duration), 0, 60)
        tokens_per_duration == FloatMulInt(tpm, per_second)
        concurrent_by_tpm ==
            FloatToInt(FloatDivInt(tokens_per_duration.m,
                                   tokens_per_duration.e, avg))
    IN  Min(concurrent_by_rpm, concurrent_by_tpm)

\* the same computation without the floor
CalculateWithoutFloor(rpm, tpm, avg, duration) ==
    Optimal(rpm, tpm, avg, duration)

\* calculate_optimal_concurrent: return max(2, optimal)
CalculateOptimalConcurrent(rpm, tpm, avg, duration) ==
    Max(2, Optimal(rpm, tpm, avg, duration))

\* a direct call of calculate_optimal_concurrent
CallCalculate(rpm, tpm, avg, dur) ==
    /\ calc' = [rpm |-> rpm, tpm |-> tpm, avg |-> avg, dur |-> dur,
                ret |-> CalculateOptimalConcurrent(rpm, tpm, avg, dur)]
    /\ UNCHANGED <<limiters, max_async, gcall>>
    /\ UNCHANGED <<gvars, pvars, jvars, svars, mvars>>

\* the operator sets <SERVICE>_MAX_ASYNC before the service's gate exists
SetMaxAsync(sv, v) ==
    /\ sv # "other"
    /\ limiters[sv] = NoGate
    /\ max_async' = [max_async EXCEPT ![sv] = v]
    /\ UNCHANGED <<limiters, calc, gcall>>
    /\ UNCHANGED <<gvars, pvars, jvars, svars, mvars>>

\* default_rpm_tpm.get(service, (1000, 50000))
DefaultRpm(sv) ==
    CASE sv \in {"llm", "ds_ocr"} -> 800
      [] sv \in {"embedding", "rerank"} -> 1600
      [] OTHER -> 1000
DefaultTpm(sv) ==
    CASE sv \in {"llm", "ds_ocr"} -> 40000
      [] sv \in {"embedding", "rerank"} -> 400000
      [] OTHER -> 50000
\* avg_tokens_map.get(service, 3500)
AvgTokensOf(sv) ==
    CASE sv \in {"embedding", "rerank"} -> 500 [] OTHER -> 3500
\* request_duration_map.get(service, 2.0)
RequestDurationOf(sv) ==
    CASE sv \in {"llm", "ds_ocr"} -> 3
      [] sv \in {"embedding", "rerank"} -> 1
      [] OTHER -> 2

\* x or default
OrDefault(x, default) == IF x = None \/ x[1] = 0 THEN default ELSE x[1]

\* a registry that never looks at the operator's setting
EnvMaxAsyncIgnored(sv) == None

\* getattr(config.<service>, 'max_async', None); None for an unknown service
EnvMaxAsync(sv) ==
    IF sv \in {"llm", "embedding", "rerank", "ds_ocr"} THEN max_async[sv]
    ELSE None

\* a registry lookup that never finds the service
InLimitersNever(sv) == FALSE

\* service in _limiters
InLimiters(sv) == limiters[sv] # NoGate

\* get_rate_limiter
GetRateLimiter(sv, max_concurrent, requests_per_minute, tokens_per_minute) ==
    LET effective_rpm == OrDefault(requests_per_minute, DefaultRpm(sv))
        effective_tpm == OrDefault(tokens_per_minute, DefaultTpm(sv))
        config_source ==
            IF max_concurrent # None THEN "tenant"
            ELSE IF EnvMaxAsync(sv) # None THEN "env"
            ELSE "auto"
        determined ==
            IF config_source = "tenant" THEN max_concurrent[1]
            ELSE IF config_source = "env" THEN EnvMaxAsync(sv)[1]
            ELSE CalculateOptimalConcurrent(effective_rpm, effective_tpm,
                                            AvgTokensOf(sv),
                                            RequestDurationOf(sv))
        final_concurrent == IF determined < 2 THEN 2 ELSE determined
    IN  /\ IF ~InLimiters(sv)
             THEN /\ limiters' = [limiters EXCEPT ![sv] =
                        [max_concurrent |-> final_concurrent,
                         requests_per_minute |-> effective_rpm,
                         tokens_per_minute |-> effective_tpm]]
                  /\ gcall' = [service |-> sv,
                               max_concurrent |-> max_concurrent,
                               created |-> TRUE,
                               warned |-> determined < 2]
             ELSE /\ gcall' = [service |-> sv,
                               max_concurrent |-> max_concurrent,
                               created |-> FALSE,
                               warned |-> FALSE]
                  /\ UNCHANGED limiters
        /\ UNCHANGED <<max_async, calc>>
        /\ UNCHANGED <<gvars, pvars, jvars, svars, mvars>>

NextCalc ==
    \E rpm \in RpmValues, tpm \in TpmValues, avg \in AvgTokenValues,
       dur \in DurationValues : CallCalculate(rpm, tpm, avg, dur)

SpecCalc == Init /\ [][NextCalc]_vars

NextConfig ==
    \/ \E sv \in Services, v \in MaxAsyncValues : SetMaxAsync(sv, v)
    \/ \E sv \in Services, mc \in MaxConcurrentArgs, rpm \in RpmArgs,
          tpm \in TpmArgs : GetRateLimiter(sv, mc, rpm, tpm)

SpecConfig == Init /\ [][NextConfig]_vars

\* ------------------------------------------------------- the selected store
\* the data of both store classes as one value
StoreState ==
    [tasks |-> tasks, batches |-> batches, rkeys |-> rkeys,
     rindex |-> rindex, rbatches |-> rbatches, rbindex |-> rbindex]

\* a method returned ret and left the data as st; a method raised
Returned(st, ret) == [st |-> st, raised |-> FALSE, ret |-> ret]
Raised(st) == [st |-> st, raised |-> TRUE, ret |-> NoRet]

\* the module-level selection and _RedisStore.__init__: reachable is FALSE
\* when redis-py is missing or from_url / ping raises
SelectStore(storage_type, reachable) ==
    /\ backend = "unset"
    /\ backend' = IF storage_type = "redis"
                    THEN IF reachable THEN "redis" ELSE "fallback"
                    ELSE "memory"
    /\ redisUp' = (storage_type = "redis" /\ reachable)
    /\ UNCHANGED <<rkeys, rindex, rbatches, rbindex, sjob, sresp>>
    /\ UNCHANGED jvars
    /\ UNCHANGED <<gvars, pvars, cvars, mvars>>

SelectStoreStep ==
    \E storage_type \in StorageTypes, reachable \in BOOLEAN :
       SelectStore(storage_type, reachable)

\* ---- _MemoryStore
MemGetTask(st, tn, k) ==
    Returned(st, [NoRet EXCEPT !.info = GetTask(st.tasks, tn, k)])

MemCreateTask(st, tn, k, info) ==
    Returned([st EXCEPT !.tasks = CreateTask(st.tasks, tn, k, info)], NoRet)

MemUpdateTask(st, tn, k, status) ==
    Returned([st EXCEPT !.tasks = UpdateTask(st.tasks, tn, k, status)], NoRet)

\* the ids of a list without k
WithoutId(ids, k) == SelectSeq(ids, LAMBDA x : x # k)

\* a delete_task that also takes the id out of the tenant's batch records
MemDeleteTaskPrunesBatches(st, tn, k) ==
    Returned([st EXCEPT !.tasks = DeleteTask(st.tasks, tn, k),
                        !.batches[tn] =
                            [b \in BatchIds |->
                                IF st.batches[tn][b] = NoBatch THEN NoBatch
                                ELSE [st.batches[tn][b] EXCEPT
                                        !.task_ids = WithoutId(@, k)]]],
             [NoRet EXCEPT !.ok = GetTask(st.tasks, tn, k) # NoTask])

MemDeleteTask(st, tn, k) ==
    Returned([st EXCEPT !.tasks = DeleteTask(st.tasks, tn, k)],
             [NoRet EXCEPT !.ok = GetTask(st.tasks, tn, k) # NoTask])

MemGetTenantTasks(st, tn) ==
    Returned(st, [NoRet EXCEPT !.tasks =
                    {<<k, st.tasks[tn][k]>> :
                        k \in {j \in TaskIds : st.tasks[tn][j] # NoTask}}])

MemCreateBatch(st, tn, b, task_ids, created_at) ==
    Returned([st EXCEPT !.batches[tn][b] =
                 [task_ids |-> task_ids, total |-> Len(task_ids),
                  created_at |-> created_at]], NoRet)

MemGetBatch(st, tn, b) ==
    Returned(st, [NoRet EXCEPT !.batch = st.batches[tn][b]])

MemDeleteBatch(st, tn, b) ==
    Returned([st EXCEPT !.batches[tn][b] = NoBatch],
             [NoRet EXCEPT !.ok = st.batches[tn][b] # NoBatch])

\* ---- _RedisStore
\* a _get_ttl with one bucket
GetTtlOneBucket(status) ==
    IF status = "deleting" THEN None ELSE <<TTL_PENDING>>

\* _get_ttl
GetTtl(status) ==
    IF status = "completed" THEN <<TTL_COMPLETED>>
    ELSE IF status = "failed" THEN <<TTL_FAILED>>
    ELSE IF status \in {"pending", "processing"} THEN <<TTL_PENDING>>
    ELSE None

\* "if self.fallback:" at the head of the method; a store whose batch
\* readers lack it
DelegatesNoBatches(method) ==
    backend = "fallback" /\ method \notin {"get_batch", "delete_batch"}

\* "if self.fallback:" at the head of the method
Delegates(method) == backend = "fallback"

\* a command sent through self.redis fails: the server does not answer, or
\* self.redis is None
CommandFails == backend # "redis" \/ ~redisUp

\* a key without the tenant: task:{task_id}
KeyTenantShared(tn) == "ta"

\* the tenant part of the key task:{tenant_id}:{task_id}
KeyTenant(tn) == tn

\* setex(key, ttl, value) when ttl is set, else set(key, value), which
\* leaves the key without expiry
WriteKey(st, tn, k, info) ==
    [st EXCEPT !.rkeys[KeyTenant(tn)][k] =
                  [info |-> info, ttl |-> GetTtl(info.status)]]

RedisGetTask(st, tn, k) ==
    IF Delegates("get_task") THEN MemGetTask(st, tn, k)
    ELSE IF CommandFails THEN Raised(st)
    ELSE Returned(st, [NoRet EXCEPT !.info =
                          IF k \in StoreIds
                            THEN st.rkeys[KeyTenant(tn)][k].info
                            ELSE NoTask])

RedisCreateTask(st, tn, k, info) ==
    IF Delegates("create_task") THEN MemCreateTask(st, tn, k, info)
    ELSE IF CommandFails THEN Raised(st)
    ELSE Returned([WriteKey(st, tn, k, info) EXCEPT
                      !.rindex[tn] = @ \cup {k}], NoRet)

RedisUpdateTask(st, tn, k, status) ==
    IF Delegates("update_task") THEN MemUpdateTask(st, tn, k, status)
    ELSE LET got == RedisGetTask(st, tn, k)
         IN  IF got.raised THEN Raised(st)
             ELSE IF got.ret.info = NoTask THEN Returned(st, NoRet)
             ELSE Returned(WriteKey(st, tn, k,
                              [got.ret.info EXCEPT !.status = status]),
                           NoRet)

\* a delete_task that reports the DEL command as sent, not the number of
\* keys it removed
RedisDeleteTaskAlwaysTrue(st, tn, k) ==
    IF Delegates("delete_task") THEN MemDeleteTask(st, tn, k)
    ELSE IF CommandFails THEN Raised(st)
    ELSE IF k \in StoreIds
      THEN Returned([st EXCEPT !.rkeys[KeyTenant(tn)][k] = NoKey,
                               !.rindex[tn] = @ \ {k}],
                    [NoRet EXCEPT !.ok = TRUE])
      ELSE Returned(st, NoRet)

RedisDeleteTask(st, tn, k) ==
    IF Delegates("delete_task") THEN MemDeleteTask(st, tn, k)
    ELSE IF CommandFails THEN Raised(st)
    ELSE IF k \in StoreIds
      THEN Returned([st EXCEPT !.rkeys[KeyTenant(tn)][k] = NoKey,
                               !.rindex[tn] = @ \ {k}],
                    [NoRet EXCEPT !.ok = st.rkeys[KeyTenant(tn)][k] # NoKey])
      ELSE Returned(st, NoRet)

\* a listing that reports every id of the index, whatever GET returned
RedisGetTenantTasksUnfiltered(st, tn) ==
    IF Delegates("get_tenant_tasks") THEN MemGetTenantTasks(st, tn)
    ELSE IF CommandFails THEN Raised(st)
    ELSE Returned(st, [NoRet EXCEPT !.tasks =
                          {<<k, st.rkeys[KeyTenant(tn)][k].info>> :
                              k \in st.rindex[tn]}])

RedisGetTenantTasks(st, tn) ==
    IF Delegates("get_tenant_tasks") THEN MemGetTenantTasks(st, tn)
    ELSE IF CommandFails THEN Raised(st)
    ELSE Returned(st, [NoRet EXCEPT !.tasks =
                          {<<k, st.rkeys[KeyTenant(tn)][k].info>> :
                              k \in {j \in st.rindex[tn] :
                                        st.rkeys[KeyTenant(tn)][j] # NoKey}}])

RedisCreateBatch(st, tn, b, task_ids, created_at) ==
    IF Delegates("create_batch")
      THEN MemCreateBatch(st, tn, b, task_ids, created_at)
    ELSE IF CommandFails THEN Raised(st)
    ELSE Returned([st EXCEPT !.rbatches[tn][b] =
                                [task_ids |-> task_ids,
                                 total |-> Len(task_ids),
                                 created_at |-> created_at],
                             !.rbindex[tn] = @ \cup {b}], NoRet)

RedisGetBatch(st, tn, b) ==
    IF Delegates("get_batch") THEN MemGetBatch(st, tn, b)
    ELSE IF CommandFails THEN Raised(st)
    ELSE Returned(st, [NoRet EXCEPT !.batch = st.rbatches[tn][b]])

RedisDeleteBatch(st, tn, b) ==
    IF Delegates("delete_batch") THEN MemDeleteBatch(st, tn, b)
    ELSE IF CommandFails THEN Raised(st)
    ELSE Returned([st EXCEPT !.rbatches[tn][b] = NoBatch,
                             !.rbindex[tn] = @ \ {b}],
                  [NoRet EXCEPT !.ok = st.rbatches[tn][b] # NoBatch])

\* ---- the public functions: _store.<method>(...)
StoreGetTask(st, tn, k) ==
    IF backend = "memory" THEN MemGetTask(st, tn, k)
    ELSE RedisGetTask(st, tn, k)

StoreCreateTask(st, tn, k, info) ==
    IF backend = "memory" THEN MemCreateTask(st, tn, k, info)
    ELSE RedisCreateTask(st, tn, k, info)

StoreUpdateTask(st, tn, k, status) ==
    IF backend = "memory" THEN MemUpdateTask(st, tn, k, status)
    ELSE RedisUpdateTask(st, tn, k, status)

StoreDeleteTask(st, tn, k) ==
    IF backend = "memory" THEN MemDeleteTask(st, tn, k)
    ELSE RedisDeleteTask(st, tn, k)

StoreGetTenantTasks(st, tn) ==
    IF backend = "memory" THEN MemGetTenantTasks(st, tn)
    ELSE RedisGetTenantTasks(st, tn)

StoreCreateBatch(st, tn, b, task_ids, created_at) ==
    IF backend = "memory" THEN MemCreateBatch(st, tn, b, task_ids, created_at)
    ELSE RedisCreateBatch(st, tn, b, task_ids, created_at)

StoreGetBatch(st, tn, b) ==
    IF backend = "memory" THEN MemGetBatch(st, tn, b)
    ELSE RedisGetBatch(st, tn, b)

StoreDeleteBatch(st, tn, b) ==
    IF backend = "memory" THEN MemDeleteBatch(st, tn, b)
    ELSE RedisDeleteBatch(st, tn, b)

\* the data after a call and what the caller got
Commit(op, r) ==
    /\ backend # "unset"
    /\ tasks' = r.st.tasks
    /\ batches' = r.st.batches
    /\ rkeys' = r.st.rkeys
    /\ rindex' = r.st.rindex
    /\ rbatches' = r.st.rbatches
    /\ rbindex' = r.st.rbindex
    /\ sresp' = [op |-> op, raised |-> r.raised, ret |-> r.ret]

StoreFrame ==
    /\ UNCHANGED <<backend, redisUp>>
    /\ UNCHANGED <<nextTask, nextBatch, wpc, wargs, sync, jresp>>
    /\ UNCHANGED <<gvars, pvars, cvars, mvars>>

\* ---- calls of the public functions
CallGetTask(tn, k) ==
    /\ Commit("get_task", StoreGetTask(StoreState, tn, k))
    /\ UNCHANGED sjob
    /\ StoreFrame

CallCreateTask(tn, k) ==
    /\ Commit("create_task", StoreCreateTask(StoreState, tn, k, NewTask(tn)))
    /\ UNCHANGED sjob
    /\ StoreFrame

CallUpdateTask(tn, k, status) ==
    /\ Commit("update_task", StoreUpdateTask(StoreState, tn, k, status))
    /\ UNCHANGED sjob
    /\ StoreFrame

CallDeleteTask(tn, k) ==
    /\ Commit("delete_task", StoreDeleteTask(StoreState, tn, k))
    /\ UNCHANGED sjob
    /\ StoreFrame

CallGetTenantTasks(tn) ==
    /\ Commit("get_tenant_tasks", StoreGetTenantTasks(StoreState, tn))
    /\ UNCHANGED sjob
    /\ StoreFrame

CallCreateBatch(tn, b, task_ids, created_at) ==
    /\ Commit("create_batch",
              StoreCreateBatch(StoreState, tn, b, task_ids, created_at))
    /\ UNCHANGED sjob
    /\ StoreFrame

CallGetBatch(tn, b) ==
    /\ Commit("get_batch", StoreGetBatch(StoreState, tn, b))
    /\ UNCHANGED sjob
    /\ StoreFrame

CallDeleteBatch(tn, b) ==
    /\ Commit("delete_batch", StoreDeleteBatch(StoreState, tn, b))
    /\ UNCHANGED sjob
    /\ StoreFrame

\* ---- Redis itself
\* the remaining life of a key after ExpiryStep seconds
Expire(key) ==
    IF key.ttl = None THEN key
    ELSE IF key.ttl[1] > ExpiryStep
      THEN [key EXCEPT !.ttl = <<key.ttl[1] - ExpiryStep>>]
      ELSE NoKey

\* ExpiryStep seconds pass: Redis removes the keys whose TTL has run out
TimePasses ==
    /\ backend = "redis"
    /\ \E tn \in JobTenants, k \in StoreIds : rkeys[tn][k].ttl # None
    /\ rkeys' = [tn \in JobTenants |->
                    [k \in StoreIds |-> Expire(rkeys[tn][k])]]
    /\ UNCHANGED <<rindex, rbatches, rbindex, sjob, sresp>>
    /\ UNCHANGED <<tasks, batches>>
    /\ StoreFrame

\* the connection to the server is lost, or comes back
RedisOutage(up) ==
    /\ backend = "redis"
    /\ redisUp # up
    /\ redisUp' = up
    /\ UNCHANGED <<backend, rkeys, rindex, rbatches, rbindex, sjob, sresp>>
    /\ UNCHANGED jvars
    /\ UNCHANGED <<gvars, pvars, cvars, mvars>>

\* ---- the background workers
\* the first update of a worker: status=PROCESSING (process_document_task)
\* or status="deleting" (execute_document_deletion)
FirstStatus(wkind) == IF wkind = "insert" THEN "processing" ELSE "deleting"

\* a statement of the try block is update_task(status); when it raises, the
\* "except Exception" handler calls update_task(status="failed"), and an
\* error raised there leaves the worker
WorkerUpdate(st, tn, k, status) ==
    LET first == StoreUpdateTask(st, tn, k, status)
    IN  IF first.raised THEN StoreUpdateTask(st, tn, k, "failed") ELSE first

\* the background task starts
WorkerBegin(tn, k, wkind) ==
    LET r == WorkerUpdate(StoreState, tn, k, FirstStatus(wkind))
    IN  /\ sjob.pc # "running"
        /\ Commit("update_task", r)
        /\ sjob' = [tenant |-> tn, id |-> k,
                    pc |-> IF r.raised THEN "unhandled" ELSE "running"]
        /\ StoreFrame

\* the work between the first and the last update returned (ok) or raised;
\* the deletion worker's delete_task(task_id=doc_id) is inside a bare
\* try/except and finds no task under the doc_id
WorkerFinish(ok) ==
    LET r == WorkerUpdate(StoreState, sjob.tenant, sjob.id,
                          IF ok THEN "completed" ELSE "failed")
    IN  /\ sjob.pc = "running"
        /\ Commit("update_task", r)
        /\ sjob' = [sjob EXCEPT !.pc = IF r.raised THEN "unhandled"
                                                    ELSE "done"]
        /\ StoreFrame

NextStore ==
    \/ SelectStoreStep
    \/ \E tn \in JobTenants, k \in StoreIds : CallGetTask(tn, k)
    \/ \E tn \in JobTenants, k \in StoreIds : CallCreateTask(tn, k)
    \/ \E tn \in JobTenants, k \in StoreIds, status \in UpdateStatuses :
          CallUpdateTask(tn, k, status)
    \/ \E tn \in JobTenants, k \in StoreIds : CallDeleteTask(tn, k)
    \/ \E tn \in JobTenants : CallGetTenantTasks(tn)
    \/ \E tn \in JobTenants, b \in BatchIds, task_ids \in BatchTaskIds,
          created_at \in CreatedAts :
          CallCreateBatch(tn, b, task_ids, created_at)
    \/ \E tn \in JobTenants, b \in BatchIds : CallGetBatch(tn, b)
    \/ \E tn \in JobTenants, b \in BatchIds : CallDeleteBatch(tn, b)
    \/ TimePasses
    \/ \E up \in BOOLEAN : RedisOutage(up)

SpecStore == Init /\ [][NextStore]_vars

\* the routes create tasks and the background workers update them
NextWorkers ==
    \/ SelectStoreStep
    \/ \E tn \in JobTenants, k \in StoreIds : CallCreateTask(tn, k)
    \/ \E tn \in JobTenants, k \in StoreIds,
          wkind \in {"insert", "deletion"} : WorkerBegin(tn, k, wkind)
    \/ \E ok \in BOOLEAN : WorkerFinish(ok)
    \/ TimePasses
    \/ \E up \in BOOLEAN : RedisOutage(up)

SpecWorkers == Init /\ [][NextWorkers]_vars

\* ------------------------------------- the MinerU client's RateLimiter
\* [t for t in self.request_times if now - t < 60]
RecentTimes(times, t) == SelectSeq(times, LAMBDA x : t - x < MineruWindow)

\* wait_time = 60 - (now - self.request_times[0]), for a list at the limit
MineruWaitTime(times, t) ==
    IF Len(times) >= MineruRpm THEN MineruWindow - (t - times[1]) ELSE 0

\* asyncio.Lock.acquire returns at once only when the lock is not held, by
\* whatever task: the lock is not reentrant
LockFreeFor(c) == mineru_lock = 0

\* a call RateLimiter.acquire() reaches "async with self._lock"
MineruCall(c) ==
    /\ mpc[c] = "idle"
    /\ (IF c = 1 THEN TRUE ELSE mpc[c - 1] # "idle")
    /\ mpc' = [mpc EXCEPT ![c] = "lock"]
    /\ UNCHANGED <<mineru_times, mineru_lock, mwake>>
    /\ UNCHANGED <<gvars, pvars, jvars, cvars, svars>>

\* the caller gets the lock and runs the block up to its first await or to
\* its end: either it records the request and leaves the block, which
\* releases the lock, or it starts asyncio.sleep(wait_time) inside the block
MineruEnter(c) ==
    LET times == RecentTimes(mineru_times, now)
        wait == MineruWaitTime(times, now)
    IN  /\ mpc[c] = "lock"
        /\ LockFreeFor(c)
        /\ IF wait > 0
             THEN /\ mineru_times' = times
                  /\ mineru_lock' = c
                  /\ mpc' = [mpc EXCEPT ![c] = "sleep"]
                  /\ mwake' = [mwake EXCEPT ![c] = now + wait]
             ELSE /\ mineru_times' = Append(times, now)
                  /\ mineru_lock' = 0
                  /\ mpc' = [mpc EXCEPT ![c] = "done"]
                  /\ UNCHANGED mwake
        /\ UNCHANGED <<gvars, pvars, jvars, cvars, svars>>

\* asyncio.sleep returns and the caller, still inside the block, runs
\* "return await self.acquire()": it reaches "async with self._lock" again
MineruWake(c) ==
    /\ mpc[c] = "sleep"
    /\ now >= mwake[c]
    /\ mpc' = [mpc EXCEPT ![c] = "lock"]
    /\ mwake' = [mwake EXCEPT ![c] = 0]
    /\ UNCHANGED <<mineru_times, mineru_lock>>
    /\ UNCHANGED <<gvars, pvars, jvars, cvars, svars>>

NextMineru ==
    \/ \E c \in Callers : MineruCall(c)
    \/ \E c \in Callers : MineruEnter(c)
    \/ \E c \in Callers : MineruWake(c)
    \/ Tick

SpecMineru == Init /\ [][NextMineru]_vars

\* ---------------------------------------------------------------- C1, C2
\* granted calls whose grant time lies in the trailing 60 seconds
InWindow(c) == grantTime[c] >= 0 /\ now - grantTime[c] < Window

RECURSIVE SumEst(_)
SumEst(S) ==
    IF S = {} THEN 0
    ELSE LET c == CHOOSE x \in S : TRUE IN est[c] + SumEst(S \ {c})

RECURSIVE MaxEst(_)
MaxEst(S) ==
    IF S = {} THEN 0
    ELSE LET c == CHOOSE x \in S : TRUE IN Max(est[c], MaxEst(S \ {c}))

\* C1: at every instant at most rpm_limit granted calls have their grant
\* time within the trailing 60 seconds.
C1_RpmBound == Cardinality({c \in Callers : InWindow(c)}) <= RpmLimit

\* C2: at every instant the estimated tokens of the granted calls within the
\* trailing 60 seconds sum to at most tpm_limit plus the largest
\* estimated_tokens ever passed.
C2_TpmBound ==
    SumEst({c \in Callers : InWindow(c)})
        <= TpmLimit + MaxEst({c \in Callers : pc[c] # "idle"})

\* ---------------------------------------------------------------- C3 - C6
Count(log, x) == Cardinality({i \in DOMAIN log : log[i] = x})

IsPrefix(a, b) == Len(a) <= Len(b) /\ a = SubSeq(b, 1, Len(a))

AdmissionOrder ==
    <<"slot_acquired", "rate_granted", "call_started", "call_finished",
      "slot_released">>

\* the caller took a slot of the gate and nothing has released it
HoldsSlot(c) == Count(ev[c], "slot_acquired") > Count(ev[c], "slot_released")

Quiescent == \A c \in Callers : pc[c] \in {"idle", "done"}

\* C3: at every instant at most max_concurrent upstream calls admitted
\* through the gate by the LLM, embedding, rerank and vision wrappers are in
\* progress.
C3_InFlightBound ==
    Cardinality({c \in Callers : kind[c] \in WrapperKinds /\ pc[c] = "upcall"})
        <= MaxConcurrent

\* C4: for every upstream call made through a gate-wrapped function the
\* events come in the order slot acquired, rate-limiter grant, call started,
\* call finished, slot released.
C4_AdmissionOrder ==
    \A c \in Callers :
        (kind[c] \in WrapperKinds /\ Count(ev[c], "call_started") > 0)
            => IsPrefix(ev[c], AdmissionOrder)

\* C5: when the protected upstream call raises inside an admission scope
\* (async with the gate or with its semaphore), the slot is released exactly
\* once, the caller gets the same error, and the free-slot count is again
\* what the callers still holding a slot leave free.
C5_RaiseReleasesOnce ==
    /\ \A c \in Callers :
          (kind[c] \in {"vision", "gate"} /\ raised[c] # "")
              => /\ Count(ev[c], "slot_released") = 1
                 /\ ~HoldsSlot(c)
                 /\ outcome[c] = raised[c]
    /\ sem_value = MaxConcurrent - Cardinality({c \in Callers : HoldsSlot(c)})

C5_Witness ==
    \E c \in Callers :
        /\ kind[c] = "vision"
        /\ raised[c] = "E2"
        /\ pc[c] = "done"
        /\ Quiescent
        /\ sem_value = MaxConcurrent

\* C6: an admission attempt cancelled or timed out while it waits for the
\* rate limiter with its slot taken releases the slot, so that the free-slot
\* count returns to its value before the attempt.
C6_CancelReleases ==
    /\ \A c \in Callers :
          outcome[c] \in {"cancelled", "timeout"} => ~HoldsSlot(c)
    /\ (Quiescent /\ \E c \in Callers : outcome[c] \in {"cancelled", "timeout"})
          => sem_value = MaxConcurrent

\* --------------------------------------------------------------- C7 - C10
\* C7: after any sequence of get_instance and remove_instance calls,
\* overlapping ones included, at most max_instances instances are resident.
C7_PoolBound == Len(instances) <= MaxInstances

\* the resident tenant that has been resident longest
LongestResident(t) ==
    /\ Resident(t)
    /\ \A u \in TenantIds : Resident(u) => residentSince[t] <= residentSince[u]

\* a step in which a get_instance call finds its tenant not cached
MissStep == \E p \in PoolCallers : ppc[p] = "idle" /\ ppc'[p] = "creating"

EvictionRule ==
    MissStep =>
        /\ Len(instances) = MaxInstances =>
              \E t \in TenantIds :
                  /\ LongestResident(t)
                  /\ instances' = DictDel(instances, t)
                  /\ Len(instances') = Len(instances) - 1
        /\ Len(instances) < MaxInstances => instances' = instances

ScenarioB ==
    /\ (MaxInstances = 2 /\ scen = 3 /\ AllIdle)
          => Tenants(instances) = << <<"b">>, <<"c">> >>
    /\ (MaxInstances = 2 /\ scen = 4)
          => /\ Tenants(instances) = << <<"c">>, <<"a">> >>
             /\ result.tid = <<"a">>
             /\ result.constructed
             /\ result.h = HandleOf(<<"a">>)
             /\ result.h = 4

HitStep(t) ==
    /\ Resident(t)
    /\ ppc' = ppc
    /\ result'.op = "get_instance"
    /\ result'.val = "ok"
    /\ result'.tid = t
    /\ ~result'.constructed

HitFrame(t) ==
    /\ instances' = instances
    /\ nextHandle' = nextHandle
    /\ residentSince' = residentSince
    /\ result'.h = HandleOf(t)

C10_MalformedRejected ==
    /\ \A p \in PoolCallers :
          ppc[p] = "creating" => ValidateTenantAccess(ptid[p])
    /\ \A i \in DOMAIN instances : ValidateTenantAccess(instances[i].tid)

\* -------------------------------------------------------------- C11 - C13
\* C11: once a job's status is completed or failed, no later step changes
\* that status.
C11_TerminalFinal ==
    [][\A tn \in JobTenants, k \in TaskIds :
          (tasks[tn][k].status \in TerminalStatuses /\ tasks'[tn][k] # NoTask)
              => tasks'[tn][k].status = tasks[tn][k].status]_vars

\* deletion jobs of a tenant and document that are pending or in progress
ActiveDeletions(tn, d) ==
    {k \in TaskIds : /\ tasks[tn][k].kind = "deletion"
                     /\ tasks[tn][k].doc = d
                     /\ tasks[tn][k].status \in {"pending", "deleting"}}

\* a step that is a DELETE /documents request for the tenant and document
DeleteStep(tn, d) ==
    /\ jresp'.op = "delete"
    /\ jresp'.tenant = tn
    /\ jresp'.doc = d
    /\ (jresp' # jresp \/ nextTask' # nextTask)

\* C12: a tenant and document never have two deletion jobs pending or in
\* progress, and a deletion request made while one is pending or in
\* progress is refused with an error and creates no job.
C12_OneActiveDeletion ==
    /\ [](\A tn \in JobTenants, d \in DocIds :
             Cardinality(ActiveDeletions(tn, d)) <= 1)
    /\ [][\A tn \in JobTenants, d \in DocIds :
             (DeleteStep(tn, d) /\ ActiveDeletions(tn, d) # {})
                 => /\ jresp'.code = 400
                    /\ tasks' = tasks
                    /\ nextTask' = nextTask
                    /\ wpc' = wpc]_vars

C12_Witness ==
    /\ jresp.op = "delete"
    /\ jresp.code = 400
    /\ ActiveDeletions(jresp.tenant, jresp.doc) # {}
    /\ \E k \in ActiveDeletions(jresp.tenant, jresp.doc) :
          tasks[jresp.tenant][k].status = "deleting"

\* the members of a batch that now have the given status
MembersWith(tn, b, st) ==
    {i \in DOMAIN batches[tn][b].task_ids :
        tasks[tn][batches[tn][b].task_ids[i]].status = st}

\* C13: every read of a batch reports, for each status, the number of member
\* jobs that have that status in the task store at the time of the read, and
\* the progress completed / number of members.
C13_BatchReadIsLive ==
    [][\A tn \in JobTenants, b \in BatchIds :
          (/\ jresp'.op = "batch"
           /\ jresp'.tenant = tn
           /\ jresp'.doc = b
           /\ jresp'.code = 200
           /\ jresp' # jresp
           /\ batches[tn][b] # NoBatch)
              => /\ tasks' = tasks /\ batches' = batches
                 /\ jresp'.counts.total = Len(batches[tn][b].task_ids)
                 /\ \A st \in {"completed", "failed", "pending", "processing"} :
                       jresp'.counts[st] = Cardinality(MembersWith(tn, b, st))]_vars

C13_Witness ==
    /\ jresp.op = "batch"
    /\ jresp.code = 200
    /\ jresp.counts.total = 2
    /\ jresp.counts.completed = 1
    /\ jresp.counts.failed = 1

\* -------------------------------------------------------- C14 - C16, C20
\* floor(tpm * duration / 60 / avg_tokens) in exact arithmetic
ExactByTpm(tpm, avg, dur) == (tpm * dur) \div (60 * avg)

\* C14: calculate_optimal_concurrent returns
\* max(2, min(rpm, floor(tpm * duration / 60 / avg_tokens))) for all positive
\* inputs, and 2 for rpm=60, tpm=6000, avg_tokens=100, duration=1.
C14_ExactFormula ==
    /\ calc # NoCalc =>
          calc.ret = Max(2, Min(calc.rpm,
                                ExactByTpm(calc.tpm, calc.avg, calc.dur)))
    /\ (calc.rpm = 60 /\ calc.tpm = 6000 /\ calc.avg = 100 /\ calc.dur = 1)
          => calc.ret = 2

\* C15: calculate_optimal_concurrent never returns less than 2, and raising
\* tokens_per_minute or requests_per_minute with the other arguments fixed
\* never lowers its value.
C15_MonotoneAboveFloor ==
    calc # NoCalc =>
        /\ calc.ret >= 2
        /\ \A tpm \in TpmValues :
              tpm >= calc.tpm =>
                 CalculateOptimalConcurrent(calc.rpm, tpm, calc.avg, calc.dur)
                    >= calc.ret
        /\ \A rpm \in RpmValues :
              rpm >= calc.rpm =>
                 CalculateOptimalConcurrent(rpm, calc.tpm, calc.avg, calc.dur)
                    >= calc.ret

C15_Witness ==
    /\ calc # NoCalc
    /\ calc.ret > 2
    /\ \E tpm \in TpmValues :
          /\ tpm > calc.tpm
          /\ CalculateOptimalConcurrent(calc.rpm, tpm, calc.avg, calc.dur)
                > calc.ret
    /\ \E rpm \in RpmValues :
          /\ rpm > calc.rpm
          /\ CalculateOptimalConcurrent(rpm, calc.tpm, calc.avg, calc.dur)
                = calc.ret

\* the value get_rate_limiter determined for the gate its last call created,
\* before any clamping: the explicit argument, else the operator's setting,
\* else min(rpm, concurrency_by_tpm) when auto is TRUE and the value of
\* calculate_optimal_concurrent when auto is FALSE
Determined(auto) ==
    LET sv == gcall.service
        g == limiters[sv]
    IN  IF gcall.max_concurrent # None THEN gcall.max_concurrent[1]
        ELSE IF max_async[sv] # None THEN max_async[sv][1]
        ELSE IF auto
          THEN Optimal(g.requests_per_minute, g.tokens_per_minute,
                       AvgTokensOf(sv), RequestDurationOf(sv))
          ELSE CalculateOptimalConcurrent(g.requests_per_minute,
                                          g.tokens_per_minute,
                                          AvgTokensOf(sv),
                                          RequestDurationOf(sv))

\* C16: when the value determined for a new gate is below 2, the
\* auto-computed min(rpm, concurrency_by_tpm) included, the gate is created
\* with concurrency 2 and a warning is logged.
C16_ClampWarns ==
    (gcall.created /\ Determined(TRUE) < 2)
        => /\ limiters[gcall.service].max_concurrent = 2
           /\ gcall.warned

\* the callers whose acquire has been granted
GrantedCallers == {c \in Callers : grantTime[c] # -1}

\* every acquire called so far is acquire(0) on the bare limiter
OnlyZeroAcquires ==
    \A c \in Callers : pc[c] # "idle" => (kind[c] = "bare" /\ est[c] = 0)

\* the time of the oldest sample recorded so far
OldestSample ==
    CHOOSE t \in {grantTime[d] : d \in GrantedCallers} :
        \A d \in GrantedCallers : t <= grantTime[d]

\* C17: when only acquire(0) calls are made against a limiter that starts
\* empty, a call goes to sleep only once rpm_limit calls have been granted
\* (the first rpm_limit are granted without waiting), and the call granted
\* after exactly rpm_limit others is granted no sooner than 60 seconds after
\* the oldest recorded sample.
C17_ScenarioD ==
    [][OnlyZeroAcquires =>
          \A c \in Callers :
             /\ (pc[c] = "acquire" /\ pc'[c] = "sleep")
                   => Cardinality(GrantedCallers) >= RpmLimit
             /\ (/\ grantTime[c] = -1
                 /\ grantTime'[c] # -1
                 /\ Cardinality(GrantedCallers) = RpmLimit)
                   => now - OldestSample >= Window]_vars

C17_Witness ==
    /\ OnlyZeroAcquires
    /\ Cardinality({c \in Callers : grantTime[c] = 0}) = RpmLimit
    /\ Cardinality(GrantedCallers) = RpmLimit + 1
    /\ \E c \in Callers : grantTime[c] >= Window

\* C18: every acquire that has been called is eventually granted when time
\* keeps advancing and each of finitely many callers calls once; a call whose
\* estimated_tokens exceeds tpm_limit does not sleep when no token usage is
\* left in the window and the request window has room.
C18_EventuallyGranted ==
    /\ \A c \in Callers : (pc[c] = "acquire") ~> (pc[c] = "done")
    /\ [][\A c \in Callers :
            (est[c] > TpmLimit /\ pc[c] = "acquire" /\ pc'[c] = "sleep")
               => \/ CleanUsage(token_usage, now) # <<>>
                  \/ GetRpmWaitTime(CleanTimes(request_times, now), now) > 0
         ]_vars

\* a call above tpm_limit has been granted behind a token-bearing call whose
\* sample was recorded before the origin of time moved
C18_Witness ==
    \E c, d \in Callers :
       /\ c # d
       /\ est[c] > TpmLimit
       /\ est[d] > 0
       /\ pc[c] = "done"
       /\ pc[d] = "done"
       /\ Len(token_usage) = 2
       /\ token_usage[1][2] = est[d]
       /\ token_usage[1][1] < grantTime[d]
       /\ token_usage[2][2] = est[c]

\* the caller of a sync wrapper is still inside the wrapper: the coroutine
\* run by the worker thread has not finished
InSyncWrapper(c) ==
    /\ kind[c] = "sync"
    /\ pc[c] \in {"sem", "acquire", "sleep", "admitted"}

\* the coroutine of the caller cannot take a step now: it waits for a slot
\* while every slot is held by an upstream call in progress, or it is in an
\* asyncio.sleep that has not ended
Blocked(c) ==
    \/ /\ pc[c] = "sem"
       /\ sem_value = 0
       /\ \A d \in Callers : HoldsSlot(d) => pc[d] = "upcall"
    \/ /\ pc[c] = "sleep"
       /\ now < wakeAt[c]

\* C19: a caller of a gate-wrapped function has control back within
\* MODEL_CALL_TIMEOUT of its call, however long the waits last: no caller is
\* still held inside a sync wrapper, its coroutine blocked, more than
\* MODEL_CALL_TIMEOUT after it entered.
C19_CallerCeiling ==
    \A c \in Callers :
       (InSyncWrapper(c) /\ Blocked(c))
          => now - startAt[c] <= ModelCallTimeout

\* C20: the concurrency of a newly created gate is the first present of the
\* explicit argument, the operator's max_async for the service and the value
\* of calculate_optimal_concurrent, raised to 2 when below; no gate has a
\* concurrency below 2.
C20_Precedence ==
    /\ gcall.created =>
          limiters[gcall.service].max_concurrent = Max(2, Determined(FALSE))
    /\ \A sv \in Services :
          limiters[sv] # NoGate => limiters[sv].max_concurrent >= 2

C20_Witness ==
    /\ gcall.created
    /\ gcall.max_concurrent = None
    /\ max_async[gcall.service] = <<8>>
    /\ limiters[gcall.service].max_concurrent = 8
    /\ \E sv \in Services :
          /\ sv # gcall.service
          /\ limiters[sv] # NoGate
          /\ limiters[sv].max_concurrent = 3

\* the gate a get_rate_limiter call with these arguments asks for: the
\* effective rpm and tpm and the concurrency determined from them
EffectiveTriple(sv, max_concurrent, requests_per_minute, tokens_per_minute) ==
    LET rpm == OrDefault(requests_per_minute, DefaultRpm(sv))
        tpm == OrDefault(tokens_per_minute, DefaultTpm(sv))
        determined ==
            IF max_concurrent # None THEN max_concurrent[1]
            ELSE IF EnvMaxAsync(sv) # None THEN EnvMaxAsync(sv)[1]
            ELSE CalculateOptimalConcurrent(rpm, tpm, AvgTokensOf(sv),
                                            RequestDurationOf(sv))
    IN  [max_concurrent |-> Max(2, determined),
         requests_per_minute |-> rpm,
         tokens_per_minute |-> tpm]

\* C21: the gate a get_rate_limiter call returns has the rpm_limit,
\* tpm_limit and max_concurrent of the caller's effective triple, so calls
\* for one service with different effective triples get different gates.
C21_GatePerTriple ==
    [][\A sv \in Services, mc \in MaxConcurrentArgs, rpm \in RpmArgs,
         tpm \in TpmArgs :
           GetRateLimiter(sv, mc, rpm, tpm)
              => limiters'[sv] = EffectiveTriple(sv, mc, rpm, tpm)]_vars

\* C22: a service's gate, once created, is never replaced: every later
\* get_rate_limiter call for the service, whatever its arguments, finds that
\* gate and its limiter state.
C22_OneStatePerService ==
    [][\A sv \in Services :
          limiters[sv] # NoGate => limiters'[sv] = limiters[sv]]_vars

\* a call asking for concurrency 4 was given the existing gate of another
\* concurrency
C22_Witness ==
    /\ ~gcall.created
    /\ gcall.service = "llm"
    /\ gcall.max_concurrent = <<4>>
    /\ limiters["llm"] # NoGate
    /\ limiters["llm"].max_concurrent # 4

\* ---------------------------------------------------------- C23 - C27
\* the TTL buckets, in seconds: 6 hours and 24 hours
Bucket(status) ==
    IF status \in {"pending", "processing"} THEN 6 * 3600 ELSE 24 * 3600

BucketStatuses == {"pending", "processing", "completed", "failed"}

\* the call wrote the Redis key of (tn, k), which now has one of the four
\* bucketed statuses
WroteBucketed(tn, k) ==
    /\ backend = "redis"
    /\ ~sresp'.raised
    /\ rkeys'[tn][k] # NoKey
    /\ rkeys'[tn][k].info.status \in BucketStatuses

\* C23: on the Redis backend, after every create_task and every update_task
\* of a record the record's TTL is the bucket of the status it now has: 6
\* hours for pending and processing, 24 hours for completed and failed.
C23_TtlIsStatusBucket ==
    [][\A tn \in JobTenants, k \in StoreIds :
          /\ (CallCreateTask(tn, k) /\ WroteBucketed(tn, k))
                => rkeys'[tn][k].ttl = <<Bucket(rkeys'[tn][k].info.status)>>
          /\ \A status \in UpdateStatuses :
                (/\ CallUpdateTask(tn, k, status)
                 /\ rkeys[tn][k] # NoKey
                 /\ WroteBucketed(tn, k))
                   => rkeys'[tn][k].ttl =
                         <<Bucket(rkeys'[tn][k].info.status)>>]_vars

\* an update gave a record whose TTL had run down the full 24 hours again
C23_Witness ==
    /\ backend = "redis"
    /\ sresp.op = "update_task"
    /\ ~sresp.raised
    /\ \E tn \in JobTenants, k \in StoreIds :
          /\ rkeys[tn][k].info.status = "failed"
          /\ rkeys[tn][k].ttl = <<24 * 3600>>
    /\ \E tn \in JobTenants, k \in StoreIds :
          /\ rkeys[tn][k].info.status = "completed"
          /\ rkeys[tn][k].ttl # <<24 * 3600>>

\* C24: on the Redis backend every job record has a finite TTL, whatever its
\* status.
C24_EveryRecordExpires ==
    backend = "redis" =>
       \A tn \in JobTenants, k \in StoreIds :
          rkeys[tn][k] # NoKey => rkeys[tn][k].ttl # None

\* the data and the result after the step are those of the _MemoryStore
\* method, and no Redis data changed
AsMemory(r) ==
    /\ tasks' = r.st.tasks
    /\ batches' = r.st.batches
    /\ sresp'.raised = r.raised
    /\ sresp'.ret = r.ret
    /\ UNCHANGED <<rkeys, rindex, rbatches, rbindex>>

\* C25: when Redis is selected but unreachable at import, a store is still
\* selected, and every job and batch operation on it changes the data and
\* returns what the same operation does on a _MemoryStore.
C25_FallbackIsMemory ==
    [][/\ SelectStoreStep => backend' \in {"memory", "redis", "fallback"}
       /\ backend = "fallback" =>
            \A tn \in JobTenants :
               /\ \A k \in StoreIds :
                     /\ CallGetTask(tn, k)
                           => AsMemory(MemGetTask(StoreState, tn, k))
                     /\ CallCreateTask(tn, k)
                           => AsMemory(MemCreateTask(StoreState, tn, k,
                                                     NewTask(tn)))
                     /\ CallDeleteTask(tn, k)
                           => AsMemory(MemDeleteTask(StoreState, tn, k))
                     /\ \A status \in UpdateStatuses :
                           CallUpdateTask(tn, k, status)
                              => AsMemory(MemUpdateTask(StoreState, tn, k,
                                                        status))
               /\ CallGetTenantTasks(tn)
                     => AsMemory(MemGetTenantTasks(StoreState, tn))
               /\ \A b \in BatchIds :
                     /\ CallGetBatch(tn, b)
                           => AsMemory(MemGetBatch(StoreState, tn, b))
                     /\ CallDeleteBatch(tn, b)
                           => AsMemory(MemDeleteBatch(StoreState, tn, b))
                     /\ \A task_ids \in BatchTaskIds, ca \in CreatedAts :
                           CallCreateBatch(tn, b, task_ids, ca)
                              => AsMemory(MemCreateBatch(StoreState, tn, b,
                                                         task_ids, ca))]_vars

\* the fallback store returned a batch and holds a task
C25_Witness ==
    /\ backend = "fallback"
    /\ sresp.op = "get_batch"
    /\ sresp.ret.batch # NoBatch
    /\ \E tn \in JobTenants, k \in StoreIds : tasks[tn][k] # NoTask

\* C26: a job write that fails on the Redis backend does not end the insert
\* or deletion worker with an unhandled error.
C26_WorkerSurvivesWriteFailure == sjob.pc # "unhandled"

\* the jobs and batches of a tenant in both stores
TenantData(tn) ==
    <<tasks[tn], batches[tn], rkeys[tn], rindex[tn], rbatches[tn],
      rbindex[tn]>>

\* the task the selected store holds for (tn, k)
OwnTask(tn, k) ==
    IF backend = "redis" THEN rkeys[tn][k].info ELSE tasks[tn][k]

OwnBatch(tn, b) ==
    IF backend = "redis" THEN rbatches[tn][b] ELSE batches[tn][b]

\* the step is a call of a store function under tenant tn
IssuedUnder(tn) ==
    \/ \E k \in StoreIds :
          \/ CallGetTask(tn, k)
          \/ CallCreateTask(tn, k)
          \/ CallDeleteTask(tn, k)
          \/ \E status \in UpdateStatuses : CallUpdateTask(tn, k, status)
    \/ CallGetTenantTasks(tn)
    \/ \E b \in BatchIds :
          \/ CallGetBatch(tn, b)
          \/ CallDeleteBatch(tn, b)
          \/ \E task_ids \in BatchTaskIds, ca \in CreatedAts :
                CallCreateBatch(tn, b, task_ids, ca)

\* C27: a store call issued under one tenant leaves the jobs and batches of
\* every other tenant unchanged and returns only the caller's own data:
\* get_task and get_batch return the caller's record under that id, None
\* when the caller has none, and get_tenant_tasks only the caller's tasks.
C27_TenantIsolation ==
    [][\A tn \in JobTenants :
          /\ IssuedUnder(tn) =>
                \A other \in JobTenants \ {tn} :
                   TenantData(other)' = TenantData(other)
          /\ \A k \in StoreIds :
                (CallGetTask(tn, k) /\ ~sresp'.raised)
                   => sresp'.ret.info = OwnTask(tn, k)
          /\ \A b \in BatchIds :
                (CallGetBatch(tn, b) /\ ~sresp'.raised)
                   => sresp'.ret.batch = OwnBatch(tn, b)
          /\ (CallGetTenantTasks(tn) /\ ~sresp'.raised)
                => \A pair \in sresp'.ret.tasks :
                      pair[2] = OwnTask(tn, pair[1])]_vars

\* a tenant without a task under an id another tenant uses was answered
\* not-found
C27_Witness ==
    /\ sresp.op = "get_task"
    /\ ~sresp.raised
    /\ sresp.ret.info = NoTask
    /\ backend = "redis"
    /\ \E k \in StoreIds :
          /\ rkeys["ta"][k] # NoKey
          /\ rkeys["tb"][k] = NoKey


\* ------------------------------------------------------------ C28
\* the dict without the entry at position i, the others in their order
WithoutEntry(insts, i) ==
    [j \in 1..(Len(insts) - 1) |-> IF j < i THEN insts[j] ELSE insts[j + 1]]

\* the position of tenant t in the dict
PositionOf(insts, t) == CHOOSE i \in DOMAIN insts : insts[i].tid = t

\* C28: remove_instance(t) returns True exactly when t is resident; then t
\* is no longer resident and every other entry is there as before, in the
\* same order; for a tenant that is not resident it returns False and the
\* pool is as before.  get_stats leaves the pool as it is and reports the
\* number of entries, max_instances and the resident tenant ids in order.
C28_RemoveAndStats ==
    [][ /\ \A t \in TenantIds :
            RemoveInstance(t) =>
                /\ result'.op = "remove_instance"
                /\ (result'.val = "True") = Resident(t)
                /\ result'.val \in {"True", "False"}
                /\ Resident(t) =>
                      /\ \A i \in DOMAIN instances' : instances'[i].tid # t
                      /\ instances'
                            = WithoutEntry(instances, PositionOf(instances, t))
                /\ ~Resident(t) => instances' = instances
        /\ GetStats =>
                /\ instances' = instances
                /\ nextHandle' = nextHandle
                /\ result'.stats.total_instances = Len(instances)
                /\ result'.stats.max_instances = MaxInstances
                /\ result'.stats.tenants
                      = [i \in DOMAIN instances |-> instances[i].tid]
      ]_vars

\* a resident tenant has been removed and another tenant is still resident
C28_Witness ==
    /\ result.op = "remove_instance"
    /\ result.val = "True"
    /\ instances # <<>>
    /\ \A i \in DOMAIN instances : instances[i].tid # result.tid



\* ------------------------------------------------------------ C29
\* the deque after a step: the old one without its first k samples, with or
\* without one new sample at the end
KeepsFrom(old, new, k) ==
    LET kept == SubSeq(old, k + 1, Len(old))
    IN  \/ new = kept
        \/ Len(new) = Len(kept) + 1 /\ SubSeq(new, 1, Len(kept)) = kept

\* a step that ends a call without a result: the upstream call raises, the
\* sync wrapper's wait times out, the caller is cancelled
EndsInFailure ==
    \/ \E c \in Callers, e \in Errors : UpstreamRaise(c, e)
    \/ \E c \in Callers : FutureTimeout(c)
    \/ \E c \in Callers : CancelInScope(c)
    \/ \E c \in Callers : CancelInEnter(c)

\* C29: a recorded sample stays in request_times / token_usage, unchanged
\* and in its place, until it is more than 60 seconds old: every step keeps
\* the deque from some position on, and every sample before that position
\* is older than 60 seconds at that step.  A step that ends a call in an
\* error, a timeout or a cancellation leaves both deques as they are.
C29_SampleStaysInWindow ==
    [][ /\ \E k \in 0..Len(request_times) :
            /\ KeepsFrom(request_times, request_times', k)
            /\ \A i \in 1..k : now - request_times[i] > Window
        /\ \E k \in 0..Len(token_usage) :
            /\ KeepsFrom(token_usage, token_usage', k)
            /\ \A i \in 1..k : now - token_usage[i][1] > Window
        /\ EndsInFailure =>
              /\ request_times' = request_times
              /\ token_usage' = token_usage
      ]_vars

\* the call of c was granted and then failed; 60 seconds after the grant
\* another caller has passed the critical section and the sample of c is
\* still in both deques
C29_Witness ==
    \E c \in Callers, d \in Callers :
        /\ c # d
        /\ raised[c] # ""
        /\ est[c] > 0
        /\ now - grantTime[c] = Window
        /\ grantTime[d] = now
        /\ \E i \in DOMAIN request_times : request_times[i] = grantTime[c]
        /\ \E i \in DOMAIN token_usage :
              token_usage[i] = <<grantTime[c], est[c]>>



\* ------------------------------------------------------------ C30
\* the caller would be granted by a pass through the critical section now
GrantDue(d) ==
    WaitTime(CleanTimes(request_times, now), CleanUsage(token_usage, now),
             now, est[d]) <= 0

AllowedChanges ==
    { <<"pending", "processing">>, <<"processing", "completed">>,
      <<"processing", "failed">>, <<"pending", "deleting">>,
      <<"deleting", "completed">>, <<"deleting", "failed">> }

\* C31: every job enters the store with status pending, and every step that
\* changes the status of a stored job changes it along one of: pending to
\* processing, processing to completed, processing to failed, pending to
\* deleting, deleting to completed, deleting to failed.
C31_StatusChanges ==
    [][\A tn \in JobTenants, k \in TaskIds :
          /\ (tasks[tn][k] = NoTask /\ tasks'[tn][k] # NoTask)
                => tasks'[tn][k].status = "pending"
          /\ (/\ tasks[tn][k] # NoTask
              /\ tasks'[tn][k] # NoTask
              /\ tasks'[tn][k].status # tasks[tn][k].status)
                => <<tasks[tn][k].status, tasks'[tn][k].status>>
                      \in AllowedChanges]_vars



\* ------------------------------------------------------------ C32
\* a step that writes the batch record b of tenant tn: create_batch or
\* delete_batch for that tenant and id
WritesBatch(tn, b) ==
    \/ \E task_ids \in BatchTaskIds, ca \in CreatedAts :
          CallCreateBatch(tn, b, task_ids, ca)
    \/ CallDeleteBatch(tn, b)

\* the fields of a stored batch record
BatchFields == {"task_ids", "total", "created_at"}

\* a stored batch record holds its three fields, and total is the length
\* of the id list
WellFormedBatch(rec) ==
    rec # NoBatch => /\ DOMAIN rec = BatchFields
                     /\ rec.total = Len(rec.task_ids)

\* C32: a stored batch record (id list, total, created_at) is the same
\* after every step other than a create_batch or delete_batch of that
\* record: no job create, update, delete or expiry and no read changes it.
\* total is always the length of the stored id list and the record has no
\* field besides task_ids, total and created_at.
C32_BatchImmutable ==
    /\ [](\A tn \in JobTenants, b \in BatchIds :
             /\ WellFormedBatch(batches[tn][b])
             /\ WellFormedBatch(rbatches[tn][b]))
    /\ [][\A tn \in JobTenants, b \in BatchIds :
             ~WritesBatch(tn, b)
                => /\ batches'[tn][b] = batches[tn][b]
                   /\ rbatches'[tn][b] = rbatches[tn][b]]_vars

\* a job listed in a batch has been deleted, the last call was that
\* delete_task, and the batch records still list the id
C32_Witness ==
    /\ sresp.op = "delete_task"
    /\ sresp.ret.ok
    /\ \A tn \in JobTenants :
          /\ (IF backend = "redis" THEN rkeys[tn][1].info ELSE tasks[tn][1])
                = NoTask
          /\ LET rec == IF backend = "redis" THEN rbatches[tn][1]
                                             ELSE batches[tn][1]
             IN  rec # NoBatch /\ rec.task_ids = <<1>> /\ rec.total = 1



\* ------------------------------------------------------------ C33
\* the positions of the dict that hold tenant t
EntriesOf(insts, t) == {i \in DOMAIN insts : insts[i].tid = t}

\* C33: when a get_instance call that constructed an instance for tenant t
\* finishes, the pool holds exactly one entry for t and it is the instance
\* this call constructed.  When t is already resident at that moment (an
\* overlapping call for t, begun while t was not resident, has finished
\* first), the number of entries stays as it is, the entry of t keeps its
\* place and every other entry is unchanged: the instance inserted last
\* replaces the earlier one and t counts once.
C33_LastWriteWins ==
    [][\A p \in PoolCallers :
          CreateDone(p) =>
              LET t == ptid[p]
              IN  /\ result'.constructed
                  /\ result'.tid = t
                  /\ result'.h > nextHandle
                  /\ Cardinality(EntriesOf(instances', t)) = 1
                  /\ \A i \in EntriesOf(instances', t) :
                        instances'[i].h = result'.h
                  /\ Resident(t) =>
                        /\ Len(instances') = Len(instances)
                        /\ \A i \in DOMAIN instances :
                              IF instances[i].tid = t
                                THEN /\ instances'[i].tid = t
                                     /\ instances[i].h < result'.h
                                ELSE instances'[i] = instances[i]]_vars

\* two calls for tenant t overlapped and both have finished: the entry of t
\* became resident with one instance and now holds a later one, returned by
\* the call that finished last
C33_Witness ==
    \E t \in TenantIds :
        /\ AllIdle
        /\ Resident(t)
        /\ residentSince[t] # 0
        /\ residentSince[t] < HandleOf(t)
        /\ result.op = "get_instance"
        /\ result.constructed
        /\ result.tid = t
        /\ result.h = HandleOf(t)
        /\ Cardinality(EntriesOf(instances, t)) = 1



\* ------------------------------------------------------------ C36
\* C36: when _create_instance raises in a get_instance call for a tenant
\* that was not resident, the error reaches the caller and the call has
\* changed nothing in the pool: it inserts nothing, and no entry that was
\* resident when it began has been deleted by it.
C36_FailedCreateLeavesPool ==
    [][\A p \in PoolCallers :
          CreateFail(p) =>
              /\ result'.val = "error"
              /\ instances' = instances
              /\ evicted[p] = <<>>]_vars



\* ------------------------------------------------------------ C34
\* the record get_task returns now for the tenant and id (NoTask: None)
TaskNow(tn, k) == StoreGetTask(StoreState, tn, k).ret.info

C35_EventuallyTerminal ==
    \A tn \in JobTenants, k \in TaskIds :
        (tasks[tn][k].status = "pending")
            ~> (tasks[tn][k].status \in TerminalStatuses)



\* ------------------------------------------------------------ C37
\* C37: a call of the MinerU RateLimiter's acquire never comes to wait for
\* the lock while it holds that lock itself.  (A caller in that position
\* would wait forever, and so would every caller after it: nothing but the
\* end of the holder's block releases the lock.)
C37_WaiterGetsThrough ==
    \A c \in Callers : mpc[c] = "lock" => mineru_lock # c



\* ------------------------------------------------------------ C38
\* C38: a DELETE /documents request for a tenant and doc_id is rejected
\* only when a deletion job of that tenant for that doc_id is pending or
\* deleting; insert jobs for the doc_id do not make the guard reject.
C38_GuardOnlyDeletions ==
    [][\A tn \in JobTenants, d \in DocIds :
          (DeleteStep(tn, d) /\ jresp'.code = 400)
              => ActiveDeletions(tn, d) # {}]_vars


\* ------------------------------------------------------------ C39
\* the records a _MemoryStore holds when it has been given the same calls
\* as the Redis server: a task per key that exists, the batch records
TasksOfKeys(keys) ==
    [tn \in JobTenants |->
        [k \in TaskIds |->
            IF k \in StoreIds THEN keys[tn][k].info ELSE NoTask]]

MemoryImage ==
    [StoreState EXCEPT !.tasks = TasksOfKeys(rkeys), !.batches = rbatches]

\* the step returned what the _MemoryStore method returns on the image of
\* the Redis data, and the Redis data after it is the image of what the
\* _MemoryStore method leaves
SameAsMemory(r) ==
    /\ sresp'.ret = r.ret
    /\ TasksOfKeys(rkeys') = r.st.tasks
    /\ rbatches' = r.st.batches

\* a call on the Redis backend that returned
RedisAnswered == backend = "redis" /\ ~sresp'.raised

====
